---- MODULE Spec2Model ----
(***************************************************************************)
(* A model of the RAG chatbot pipeline of Backend/: the text cleaner and   *)
(* the two chunkers (services/pdf_processor.py, gemini_rag_chatbot.py),    *)
(* the embedding gateway (services/embedding_service.py) and the RAG       *)
(* orchestration (services/rag_service.py, gemini_rag_chatbot.py), and the *)
(* vector store gateway (services/pinecone_service.py) and the HTTP        *)
(* handlers (routers/, main.py).                                           *)
(*                                                                         *)
(* A text is a sequence of one-character strings.  Each component has its  *)
(* own variables and its own specification (SpecClean, SpecChunk, ...);    *)
(* in a component's specification the other components stay idle.          *)
(***************************************************************************)
EXTENDS Integers, Sequences, FiniteSets, TLC

VARIABLES
  cl_pc, cl_in, cl_once, cl_twice,
  ck_pc, ck_impl, ck_raw, ck_size_arg, ck_overlap_arg,
  ck_text, ck_size, ck_overlap, ck_start, ck_chunks, ck_windows,
  em_pc, em_impl, em_call, em_log,
  eb_pc, eb_texts, eb_batch_size, eb_i, eb_tasks, eb_j, eb_retry, eb_out,
  eb_attempts,
  rq_pc, rq_impl, rq_query, rq_embed, rq_search_attempts, rq_matches,
  rq_gen_attempts, rq_prompt, rq_response, rq_sources, rq_calls,
  vs_index, vs_handles, vs_exists, vs_create, vs_stored, vs_caller,
  hp_pc, hp_handler, hp_req, hp_status, hp_calls, hp_task, hp_health,
  hp_exhausted,
  cf_settings, cf_valid, cf_chunker,
  ig_ids, ig_uuids, ig_ingests,
  rl_limit, rl_now, rl_history, rl_task, rl_admitted, rl_last, rl_requests

varsClean == <<cl_pc, cl_in, cl_once, cl_twice>>
varsChunk == <<ck_pc, ck_impl, ck_raw, ck_size_arg, ck_overlap_arg,
               ck_text, ck_size, ck_overlap, ck_start, ck_chunks, ck_windows>>
varsSingle == <<em_pc, em_impl, em_call, em_log>>
varsBatch == <<eb_pc, eb_texts, eb_batch_size, eb_i, eb_tasks, eb_j, eb_retry,
               eb_out, eb_attempts>>
varsEmbed == <<varsSingle, varsBatch>>
varsRag == <<rq_pc, rq_impl, rq_query, rq_embed, rq_search_attempts, rq_matches,
             rq_gen_attempts, rq_prompt, rq_response, rq_sources, rq_calls>>
varsStore == <<vs_index, vs_handles, vs_exists, vs_create, vs_stored, vs_caller>>
varsHttp == <<hp_pc, hp_handler, hp_req, hp_status, hp_calls, hp_task,
              hp_health, hp_exhausted>>
varsConfig == <<cf_settings, cf_valid, cf_chunker>>
varsIngest == <<ig_ids, ig_uuids, ig_ingests>>
varsRate == <<rl_limit, rl_now, rl_history, rl_task, rl_admitted, rl_last,
              rl_requests>>
vars == <<varsClean, varsChunk, varsEmbed, varsRag, varsStore, varsHttp,
          varsConfig, varsIngest, varsRate>>

\* what an action of one component leaves alone
FrameClean == UNCHANGED <<varsChunk, varsEmbed, varsRag, varsStore, varsHttp,
              varsConfig, varsIngest, varsRate>>
FrameChunk == UNCHANGED <<varsClean, varsEmbed, varsRag, varsStore, varsHttp,
              varsConfig, varsIngest, varsRate>>
FrameSingle ==
  UNCHANGED <<varsClean, varsChunk, varsBatch, varsRag, varsStore, varsHttp,
              varsConfig, varsIngest, varsRate>>
FrameBatch ==
  UNCHANGED <<varsClean, varsChunk, varsSingle, varsRag, varsStore, varsHttp,
              varsConfig, varsIngest, varsRate>>
FrameRag == UNCHANGED <<varsClean, varsChunk, varsEmbed, varsStore, varsHttp,
              varsConfig, varsIngest, varsRate>>
FrameStore == UNCHANGED <<varsClean, varsChunk, varsEmbed, varsRag, varsHttp,
              varsConfig, varsIngest, varsRate>>
FrameHttp == UNCHANGED <<varsClean, varsChunk, varsEmbed, varsRag, varsStore,
              varsConfig, varsIngest, varsRate>>
FrameConfig ==
  UNCHANGED <<varsClean, varsChunk, varsEmbed, varsRag, varsStore, varsHttp,
              varsIngest, varsRate>>
FrameIngest ==
  UNCHANGED <<varsClean, varsChunk, varsEmbed, varsRag, varsStore, varsHttp,
              varsConfig, varsRate>>
FrameRate ==
  UNCHANGED <<varsClean, varsChunk, varsEmbed, varsRag, varsStore, varsHttp,
              varsConfig, varsIngest>>

(***************************************************************************)
(* Bounds of the model.                                                    *)
(***************************************************************************)
MaxCleanLen == 5
MaxRun == 2
MaxChunkSize == 7
LongRun == 4
MaxConfigSize == 4
MaxIngests == 3
MaxTexts == 3
MaxBatchSize == 3
MaxMatches == 4
MaxCallers == 2
MaxEntries == 201
MaxLimit == 2
MaxClock == 70
MaxRequests == 3

(***************************************************************************)
(* Characters.  NONASCII stands for any character outside \x20-\x7E that   *)
(* is not whitespace (e.g. U+00E9).                                        *)
(***************************************************************************)
NONASCII == "U+00E9"
\* an optional argument: None is <<>>, the value n is <<n>>
None == <<>>
Some(n) == <<n>>

Max(a, b) == IF a >= b THEN a ELSE b
Min(a, b) == IF a <= b THEN a ELSE b

\* the regex class \s and str.strip()'s whitespace
IsSpace(c) == c \in {" ", "\n", "\t"}
\* the regex class [\x20-\x7E\n] kept by clean_text's third substitution:
\* every character of the model but the tab and NONASCII
IsKept(c) == c \notin {"\t", NONASCII}

RECURSIVE DropWhile(_, _)
DropWhile(s, cls) ==
  IF s = <<>> THEN <<>>
  ELSE IF Head(s) \in cls THEN DropWhile(Tail(s), cls) ELSE s

\* re.sub(r'[cls]+', r, s): every maximal run of characters of cls becomes r
RECURSIVE SubRuns(_, _, _)
SubRuns(s, cls, r) ==
  IF s = <<>> THEN <<>>
  ELSE IF Head(s) \in cls
       THEN r \o SubRuns(DropWhile(Tail(s), cls), cls, r)
       ELSE <<Head(s)>> \o SubRuns(Tail(s), cls, r)

RECURSIVE LStrip(_)
LStrip(s) ==
  IF s = <<>> THEN <<>>
  ELSE IF IsSpace(Head(s)) THEN LStrip(Tail(s)) ELSE s

RECURSIVE RStrip(_)
RStrip(s) ==
  IF s = <<>> THEN <<>>
  ELSE IF IsSpace(s[Len(s)]) THEN RStrip(SubSeq(s, 1, Len(s) - 1)) ELSE s

\* str.strip()
Strip(s) == RStrip(LStrip(s))

\* Python's s[start:end], negative and out-of-range indices included
SliceIndex(i, n) == IF i < 0 THEN Max(i + n, 0) ELSE Min(i, n)
Slice(s, start, end) ==
  LET lo == SliceIndex(start, Len(s))
      hi == SliceIndex(end, Len(s))
  IN IF lo >= hi THEN <<>> ELSE SubSeq(s, lo + 1, hi)

\* str.rfind(sub): the highest 0-based index where sub occurs, or -1
RFind(s, sub) ==
  LET hits == {i \in 0..(Len(s) - Len(sub)) :
                 SubSeq(s, i + 1, i + Len(sub)) = sub}
  IN IF hits = {} THEN -1 ELSE CHOOSE i \in hits : \A j \in hits : j <= i

(***************************************************************************)
(* clean_text (pdf_processor.py): four steps in the order of the source.   *)
(***************************************************************************)
CollapseNewlines(s) == SubRuns(s, {"\n"}, <<"\n">>)
CollapseWhitespace(s) == SubRuns(s, {" ", "\n", "\t"}, <<" ">>)
RemoveNonPrintable(s) == SelectSeq(s, IsKept)
clean_text(s) ==
  Strip(RemoveNonPrintable(CollapseWhitespace(CollapseNewlines(s))))

RECURSIVE SeqsUpTo(_, _)
SeqsUpTo(S, n) ==
  IF n = 0 THEN {<<>>}
  ELSE LET prev == SeqsUpTo(S, n - 1)
       IN prev \cup {Append(s, c) : s \in {t \in prev : Len(t) = n - 1}, c \in S}

CleanChars == {"a", " ", "\n", NONASCII}
CleanInputs == SeqsUpTo(CleanChars, MaxCleanLen)

CleanIdle ==
  /\ cl_pc = "idle" /\ cl_in = <<>> /\ cl_once = <<>> /\ cl_twice = <<>>

CleanStart ==
  /\ cl_pc = "input"
  /\ cl_in \in CleanInputs
  /\ cl_once = <<>> /\ cl_twice = <<>>

\* clean_text applied to the input
CleanFirst ==
  /\ cl_pc = "input"
  /\ cl_once' = clean_text(cl_in)
  /\ cl_pc' = "once"
  /\ UNCHANGED <<cl_in, cl_twice>>
  /\ FrameClean

\* clean_text applied to its own output
CleanSecond ==
  /\ cl_pc = "once"
  /\ cl_twice' = clean_text(cl_once)
  /\ cl_pc' = "twice"
  /\ UNCHANGED <<cl_in, cl_once>>
  /\ FrameClean

NextClean == CleanFirst \/ CleanSecond

(***************************************************************************)
(* The chunkers.                                                           *)
(***************************************************************************)
CHUNK_SIZE == 500
CHUNK_OVERLAP == 100
BotChunkSize == 500
BotOverlap == 50

\* Python's `x or default`: None and 0 are falsy
OrDefault(x, d) == IF x = None THEN d ELSE IF x[1] = 0 THEN d ELSE x[1]
\* a keyword argument with a default value: only None takes the default
ArgOr(x, d) == IF x = None THEN d ELSE x[1]

Run(n) == [i \in 1..n |-> "a"]
Separators == {<<>>, <<".", " ">>, <<"\n">>, <<" ">>, <<".">>}
ChunkInputs ==
  {Run(i) \o s1 \o Run(j) \o s2 \o Run(k) :
     i \in 0..MaxRun, j \in 0..MaxRun, k \in 0..MaxRun,
     s1 \in Separators, s2 \in Separators}
  \cup {Run(LongRun) \o s1 \o s2 \o Run(1) :
          s1 \in Separators, s2 \in Separators}
MaxTextLen == 3 * MaxRun + 4

ChunkIdle ==
  /\ ck_pc = "idle" /\ ck_impl = "none" /\ ck_raw = <<>>
  /\ ck_size_arg = None /\ ck_overlap_arg = None
  /\ ck_text = <<>> /\ ck_size = 0 /\ ck_overlap = 0 /\ ck_start = 0
  /\ ck_chunks = <<>> /\ ck_windows = <<>>

ChunkStart ==
  /\ ck_pc = "call"
  /\ ck_impl \in {"pdf", "bot"}
  /\ ck_raw \in ChunkInputs
  /\ \/ ck_size_arg = None /\ ck_overlap_arg = None
     \/ \E size \in 1..MaxChunkSize, overlap \in 0..(MaxChunkSize - 1) :
          /\ overlap < size
          /\ ck_size_arg = Some(size)
          /\ ck_overlap_arg = Some(overlap)
  /\ ck_text = <<>> /\ ck_size = 0 /\ ck_overlap = 0 /\ ck_start = 0
  /\ ck_chunks = <<>> /\ ck_windows = <<>>

\* a boundary seeking that prefers the sentence break to the paragraph break
WindowEndSentenceFirst(text, start, size) ==
  LET end == start + size
      chunk == Slice(text, start, end)
      paragraph_break == RFind(chunk, <<"\n">>)
      sentence_break == RFind(chunk, <<".", " ">>)
  IN IF end < Len(text)
     THEN IF 2 * sentence_break > size THEN start + sentence_break + 2
          ELSE IF 2 * paragraph_break > size THEN start + paragraph_break + 1
          ELSE end
     ELSE end

\* the window end chosen by chunk_text's boundary seeking
PdfWindowEnd(text, start, size) ==
  LET end == start + size
      chunk == Slice(text, start, end)
      paragraph_break == RFind(chunk, <<"\n">>)
      sentence_break == RFind(chunk, <<".", " ">>)
  IN IF end < Len(text)
     THEN IF 2 * paragraph_break > size THEN start + paragraph_break + 1
          ELSE IF 2 * sentence_break > size THEN start + sentence_break + 2
          ELSE end
     ELSE end

\* start = end - chunk_overlap
PdfNextStart(end, overlap) == end - overlap

\* a single-chunk test that sends a text of exactly the chunk size to the loop
FitsStrictly(text, size) == Len(text) < size

\* if len(text) <= chunk_size
FitsInOneChunk(text, size) == Len(text) <= size

\* chunk_text up to the loop: defaults, cleaning, the single-chunk return
PdfChunkCall ==
  /\ ck_pc = "call" /\ ck_impl = "pdf"
  /\ LET size == OrDefault(ck_size_arg, CHUNK_SIZE)
         overlap == OrDefault(ck_overlap_arg, CHUNK_OVERLAP)
         text == clean_text(ck_raw)
     IN /\ ck_size' = size
        /\ ck_overlap' = overlap
        /\ ck_text' = text
        /\ IF FitsInOneChunk(text, size)
           THEN /\ ck_chunks' = <<text>>
                /\ ck_windows' = <<[start |-> 0, end |-> Len(text)]>>
                /\ ck_pc' = "done"
           ELSE /\ ck_chunks' = <<>>
                /\ ck_windows' = <<>>
                /\ ck_pc' = "loop"
  /\ ck_start' = 0
  /\ UNCHANGED <<ck_impl, ck_raw, ck_size_arg, ck_overlap_arg>>
  /\ FrameChunk

\* one iteration of chunk_text's while loop
PdfChunkLoop ==
  /\ ck_pc = "loop" /\ ck_impl = "pdf"
  /\ ck_start < Len(ck_text)
  /\ Len(ck_chunks) <= MaxTextLen
  /\ LET end == PdfWindowEnd(ck_text, ck_start, ck_size)
     IN /\ ck_chunks' = Append(ck_chunks, Strip(Slice(ck_text, ck_start, end)))
        /\ ck_windows' = Append(ck_windows, [start |-> ck_start, end |-> end])
        /\ ck_start' = PdfNextStart(end, ck_overlap)
  /\ UNCHANGED <<ck_pc, ck_impl, ck_raw, ck_size_arg, ck_overlap_arg,
                 ck_text, ck_size, ck_overlap>>
  /\ FrameChunk

\* RAGChatbot.chunk_text up to the loop
BotChunkCall ==
  /\ ck_pc = "call" /\ ck_impl = "bot"
  /\ LET size == ArgOr(ck_size_arg, BotChunkSize)
         overlap == ArgOr(ck_overlap_arg, BotOverlap)
     IN /\ ck_size' = size
        /\ ck_overlap' = overlap
        /\ ck_text' = ck_raw
        /\ IF FitsInOneChunk(ck_raw, size)
           THEN /\ ck_chunks' = <<ck_raw>>
                /\ ck_windows' = <<[start |-> 0, end |-> Len(ck_raw)]>>
                /\ ck_pc' = "done"
           ELSE /\ ck_chunks' = <<>>
                /\ ck_windows' = <<>>
                /\ ck_pc' = "loop"
  /\ ck_start' = 0
  /\ UNCHANGED <<ck_impl, ck_raw, ck_size_arg, ck_overlap_arg>>
  /\ FrameChunk

\* start += chunk_size - overlap
BotNextStart(start, size, overlap) == start + size - overlap

\* one iteration of RAGChatbot.chunk_text's while loop
BotChunkLoop ==
  /\ ck_pc = "loop" /\ ck_impl = "bot"
  /\ ck_start < Len(ck_text)
  /\ Len(ck_windows) <= MaxTextLen
  /\ LET end == ck_start + ck_size
         chunk == Strip(Slice(ck_text, ck_start, end))
     IN /\ ck_chunks' = IF chunk # <<>> THEN Append(ck_chunks, chunk) ELSE ck_chunks
        /\ ck_windows' = Append(ck_windows, [start |-> ck_start, end |-> end])
        /\ ck_start' = BotNextStart(ck_start, ck_size, ck_overlap)
  /\ UNCHANGED <<ck_pc, ck_impl, ck_raw, ck_size_arg, ck_overlap_arg,
                 ck_text, ck_size, ck_overlap>>
  /\ FrameChunk

\* the while condition fails: return chunks
ChunkReturn ==
  /\ ck_pc = "loop"
  /\ ck_start >= Len(ck_text)
  /\ ck_pc' = "done"
  /\ UNCHANGED <<ck_impl, ck_raw, ck_size_arg, ck_overlap_arg,
                 ck_text, ck_size, ck_overlap, ck_start, ck_chunks, ck_windows>>
  /\ FrameChunk

NextChunk ==
  PdfChunkCall \/ PdfChunkLoop \/ BotChunkCall \/ BotChunkLoop \/ ChunkReturn

(***************************************************************************)
(* The embedding gateway (embedding_service.py) and RAGChatbot's           *)
(* _get_embedding.  A backend call is issued and later resolved with an    *)
(* outcome: "ok", "transient" (any error) or "auth" (an error whose text   *)
(* holds "API key not valid").  The vector the backend returns for a text  *)
(* is tagged with the text and with the attempt that produced it; the      *)
(* vector [0.0] * 768 is ZeroVector.                                       *)
(***************************************************************************)
EMBED_DIM == 768
ZeroVector == [of |-> <<>>, attempt |-> 0, dim |-> EMBED_DIM]
BackendVector(text, attempt) == [of |-> text, attempt |-> attempt, dim |-> EMBED_DIM]
Outcomes == {"ok", "transient", "auth"}
NoError == [type |-> "none", cause |-> "none"]

\* a decorator that stops one attempt later
StopAfterFourAttempts(attempt) == attempt >= 4

\* stop=stop_after_attempt(3)
StopAfterAttempt(attempt) == attempt >= 3

\* a call of create_embedding under its @retry decorator
NewCall(text) ==
  [text |-> text, attempts |-> 0, status |-> "ready",
   value |-> ZeroVector, error |-> NoError]
IdleCall == [NewCall(<<>>) EXCEPT !.status = "idle"]

\* asyncio.to_thread(genai.embed_content, ...) is started
CallIssue(c) == [c EXCEPT !.attempts = @ + 1, !.status = "inflight"]

\* the except clause of create_embedding: both errors are ValueErrors
EmbedError(outcome) ==
  IF outcome = "auth" THEN "Invalid Google API key" ELSE "Error creating embedding"

\* the backend call ends: return, or raise and let the decorator decide
CallResolve(c, outcome) ==
  IF outcome = "ok"
  THEN [c EXCEPT !.status = "returned",
                 !.value = BackendVector(c.text, c.attempts)]
  ELSE IF StopAfterAttempt(c.attempts)
       THEN [c EXCEPT !.status = "raised",
                      !.error = [type |-> "RetryError", cause |-> EmbedError(outcome)]]
       ELSE [c EXCEPT !.status = "ready",
                      !.error = [type |-> "ValueError", cause |-> EmbedError(outcome)]]

IsBlank(text) == Strip(text) = <<>>

EmbedTexts == {<<>>, <<" ">>, <<"\n", " ">>, <<"a">>}

SingleIdle ==
  /\ em_pc = "idle" /\ em_impl = "none" /\ em_call = IdleCall /\ em_log = <<>>

SingleStart ==
  /\ em_pc = "call"
  /\ em_impl \in {"create_embedding", "embed_query", "_get_embedding"}
  /\ \E text \in EmbedTexts : em_call = NewCall(text)
  /\ em_log = <<>>

\* create_embedding / embed_query: one backend attempt is started
SingleIssue ==
  /\ em_pc = "call" /\ em_impl \in {"create_embedding", "embed_query"}
  /\ em_call.status = "ready"
  /\ em_call' = CallIssue(em_call)
  /\ UNCHANGED <<em_pc, em_impl, em_log>>
  /\ FrameSingle

\* the attempt ends; the decorator retries, or the call returns or raises
SingleResolve ==
  /\ em_pc = "call" /\ em_impl \in {"create_embedding", "embed_query"}
  /\ em_call.status = "inflight"
  /\ \E outcome \in Outcomes :
       /\ em_call' = CallResolve(em_call, outcome)
       /\ em_log' = Append(em_log, outcome)
       /\ em_pc' = IF em_call'.status \in {"returned", "raised"} THEN "done" ELSE "call"
  /\ UNCHANGED em_impl
  /\ FrameSingle

\* RAGChatbot._get_embedding: blank text returns the zero vector at once
BotEmbedBlank ==
  /\ em_pc = "call" /\ em_impl = "_get_embedding"
  /\ em_call.status = "ready"
  /\ IsBlank(em_call.text)
  /\ em_call' = [em_call EXCEPT !.status = "returned", !.value = ZeroVector]
  /\ em_pc' = "done"
  /\ UNCHANGED <<em_impl, em_log>>
  /\ FrameSingle

\* RAGChatbot._get_embedding: genai.embed_content is called
BotEmbedIssue ==
  /\ em_pc = "call" /\ em_impl = "_get_embedding"
  /\ em_call.status = "ready"
  /\ ~IsBlank(em_call.text)
  /\ em_call' = CallIssue(em_call)
  /\ UNCHANGED <<em_pc, em_impl, em_log>>
  /\ FrameSingle

\* the result of RAGChatbot._get_embedding's single attempt
BotEmbedResult(c, outcome) ==
  IF outcome = "ok"
  THEN [c EXCEPT !.status = "returned", !.value = BackendVector(c.text, c.attempts)]
  ELSE [c EXCEPT !.status = "returned", !.value = ZeroVector]

\* RAGChatbot._get_embedding: the call ends; any exception gives the zero vector
BotEmbedResolve ==
  /\ em_pc = "call" /\ em_impl = "_get_embedding"
  /\ em_call.status = "inflight"
  /\ \E outcome \in Outcomes :
       /\ em_call' = BotEmbedResult(em_call, outcome)
       /\ em_log' = Append(em_log, outcome)
  /\ em_pc' = "done"
  /\ UNCHANGED em_impl
  /\ FrameSingle

NextSingle ==
  SingleIssue \/ SingleResolve \/ BotEmbedBlank \/ BotEmbedIssue \/ BotEmbedResolve

(***************************************************************************)
(* create_embeddings_batch.  Text k of the input is eb_texts[k]; eb_i is   *)
(* the loop variable i (0-based), eb_tasks the calls of the current group  *)
(* and eb_j the 1-based position of the result being examined.             *)
(***************************************************************************)
BatchText(k) == Run(k)

BatchIdle ==
  /\ eb_pc = "idle" /\ eb_texts = <<>> /\ eb_batch_size = 0 /\ eb_i = 0
  /\ eb_tasks = <<>> /\ eb_j = 0 /\ eb_retry = IdleCall /\ eb_out = <<>>
  /\ eb_attempts = <<>>

BatchStart ==
  /\ eb_pc = "for"
  /\ \E n \in 0..MaxTexts : eb_texts = [k \in 1..n |-> BatchText(k)]
  /\ eb_batch_size \in 1..MaxBatchSize
  /\ eb_i = 0 /\ eb_tasks = <<>> /\ eb_j = 0 /\ eb_retry = IdleCall
  /\ eb_out = <<>>
  /\ eb_attempts = [k \in 1..Len(eb_texts) |-> 0]

\* a group one text larger than the batch size
BatchSliceWide(texts, i, size) == Slice(texts, i, i + size + 1)

\* batch = texts[i:i + batch_size]
BatchSlice(texts, i, size) == Slice(texts, i, i + size)

\* the for loop's head: the next group's tasks are created, or the list returned
BatchFor ==
  /\ eb_pc = "for"
  /\ IF eb_i < Len(eb_texts)
     THEN /\ eb_tasks' = LET batch == BatchSlice(eb_texts, eb_i, eb_batch_size)
                         IN [k \in 1..Len(batch) |-> NewCall(batch[k])]
          /\ eb_pc' = "gather"
     ELSE /\ eb_tasks' = <<>>
          /\ eb_pc' = "done"
  /\ UNCHANGED <<eb_texts, eb_batch_size, eb_i, eb_j, eb_retry, eb_out, eb_attempts>>
  /\ FrameBatch

\* a task of the gathered group starts a backend attempt
TaskIssue(k) ==
  /\ eb_pc = "gather"
  /\ k <= Len(eb_tasks)
  /\ eb_tasks[k].status = "ready"
  /\ eb_tasks' = [eb_tasks EXCEPT ![k] = CallIssue(@)]
  /\ eb_attempts' = [eb_attempts EXCEPT ![eb_i + k] = @ + 1]
  /\ UNCHANGED <<eb_pc, eb_texts, eb_batch_size, eb_i, eb_j, eb_retry, eb_out>>
  /\ FrameBatch

\* a task's backend attempt ends
TaskResolve(k) ==
  /\ eb_pc = "gather"
  /\ k <= Len(eb_tasks)
  /\ eb_tasks[k].status = "inflight"
  /\ \E outcome \in Outcomes :
       eb_tasks' = [eb_tasks EXCEPT ![k] = CallResolve(@, outcome)]
  /\ UNCHANGED <<eb_pc, eb_texts, eb_batch_size, eb_i, eb_j, eb_retry, eb_out,
                 eb_attempts>>
  /\ FrameBatch

\* asyncio.gather(*tasks, return_exceptions=True) returns
GatherDone ==
  /\ eb_pc = "gather"
  /\ \A k \in 1..Len(eb_tasks) : eb_tasks[k].status \in {"returned", "raised"}
  /\ eb_pc' = "collect"
  /\ eb_j' = 1
  /\ UNCHANGED <<eb_texts, eb_batch_size, eb_i, eb_tasks, eb_retry, eb_out,
                 eb_attempts>>
  /\ FrameBatch

\* all_embeddings.append(embedding)
CollectAppend(out, value) == Append(out, value)
\* a fallback that appends nothing
FallbackDropsEntry(out) == out

\* all_embeddings.append([0.0] * 768)
CollectFallback(out) == Append(out, ZeroVector)

\* a test that takes no gathered result for an exception
NeverException(task) == FALSE

\* isinstance(embedding, Exception)
IsException(task) == task.status = "raised"

\* one turn of the loop over batch_embeddings
Collect ==
  /\ eb_pc = "collect"
  /\ IF eb_j > Len(eb_tasks)
     THEN /\ eb_i' = eb_i + eb_batch_size
          /\ eb_pc' = "for"
          /\ UNCHANGED <<eb_j, eb_retry, eb_out>>
     ELSE IF IsException(eb_tasks[eb_j])
          THEN /\ eb_retry' = NewCall(eb_tasks[eb_j].text)
               /\ eb_pc' = "retry"
               /\ UNCHANGED <<eb_i, eb_j, eb_out>>
          ELSE /\ eb_out' = CollectAppend(eb_out, eb_tasks[eb_j].value)
               /\ eb_j' = eb_j + 1
               /\ UNCHANGED <<eb_pc, eb_i, eb_retry>>
  /\ UNCHANGED <<eb_texts, eb_batch_size, eb_tasks, eb_attempts>>
  /\ FrameBatch

\* the isolated retry starts a backend attempt
RetryIssue ==
  /\ eb_pc = "retry"
  /\ eb_retry.status = "ready"
  /\ eb_retry' = CallIssue(eb_retry)
  /\ eb_attempts' = [eb_attempts EXCEPT ![eb_i + eb_j] = @ + 1]
  /\ UNCHANGED <<eb_pc, eb_texts, eb_batch_size, eb_i, eb_tasks, eb_j, eb_out>>
  /\ FrameBatch

\* the isolated retry's attempt ends; on return or raise the result is appended
RetryResolve ==
  /\ eb_pc = "retry"
  /\ eb_retry.status = "inflight"
  /\ \E outcome \in Outcomes :
       LET c == CallResolve(eb_retry, outcome)
       IN IF c.status = "returned"
          THEN /\ eb_out' = CollectAppend(eb_out, c.value)
               /\ eb_j' = eb_j + 1
               /\ eb_retry' = IdleCall
               /\ eb_pc' = "collect"
          ELSE IF c.status = "raised"
          THEN /\ eb_out' = CollectFallback(eb_out)
               /\ eb_j' = eb_j + 1
               /\ eb_retry' = IdleCall
               /\ eb_pc' = "collect"
          ELSE /\ eb_retry' = c
               /\ UNCHANGED <<eb_pc, eb_j, eb_out>>
  /\ UNCHANGED <<eb_texts, eb_batch_size, eb_i, eb_tasks, eb_attempts>>
  /\ FrameBatch

NextBatch ==
  \/ BatchFor
  \/ \E k \in 1..MaxBatchSize : TaskIssue(k)
  \/ \E k \in 1..MaxBatchSize : TaskResolve(k)
  \/ GatherDone
  \/ Collect
  \/ RetryIssue
  \/ RetryResolve

NextEmbed == NextSingle \/ NextBatch

(***************************************************************************)
(* The RAG orchestration: process_query (rag_service.py) and               *)
(* RAGChatbot.chat (gemini_rag_chatbot.py).  A match is a record with the  *)
(* chunk's id, score (hundredths), source and page; the vector store       *)
(* answers a query with any list of distinct matches of MatchPool.         *)
(***************************************************************************)
BotContextDocs == 3

MatchPool ==
  {[id |-> 1, score |-> 90, source |-> "manual", page |-> 0],
   [id |-> 2, score |-> 50, source |-> "a.pdf", page |-> 1],
   [id |-> 3, score |-> 50, source |-> "a.pdf", page |-> 2],
   [id |-> 4, score |-> 10, source |-> "b.pdf", page |-> 1]}

RECURSIVE DistinctSeqs(_, _)
DistinctSeqs(S, n) ==
  IF n = 0 THEN {<<>>}
  ELSE LET prev == DistinctSeqs(S, n - 1)
       IN prev \cup {Append(q, m) : q \in {t \in prev : Len(t) = n - 1},
                                    m \in S}

MatchLists ==
  {q \in DistinctSeqs(MatchPool, MaxMatches) :
     \A a, b \in 1..Len(q) : a # b => q[a] # q[b]}

\* sorted(..., key=score, reverse=True): stable, equal scores keep their order
RECURSIVE InsertByScore(_, _)
InsertByScore(sorted, m) ==
  IF sorted = <<>> THEN <<m>>
  ELSE IF Head(sorted).score >= m.score
       THEN <<Head(sorted)>> \o InsertByScore(Tail(sorted), m)
       ELSE <<m>> \o sorted

RECURSIVE SortByScore(_)
SortByScore(q) ==
  IF q = <<>> THEN <<>>
  ELSE InsertByScore(SortByScore(SubSeq(q, 1, Len(q) - 1)), q[Len(q)])

\* format_context: one labelled block per chunk, in sorted order
format_context(context_chunks) ==
  LET sorted_chunks == SortByScore(context_chunks)
  IN [r \in 1..Len(sorted_chunks) |->
        [label |-> "CONTEXT CHUNK", rank |-> r,
         source |-> sorted_chunks[r].source,
         page |-> sorted_chunks[r].page,
         id |-> sorted_chunks[r].id]]

\* RAGChatbot.generate_response's context: the first three retrieved docs,
\* each as "Document <i+1> (Source: <source_file>): <content>", without a page
BotContext(retrieved_docs) ==
  LET docs == Slice(retrieved_docs, 0, BotContextDocs)
  IN [r \in 1..Len(docs) |->
        [label |-> "Document", rank |-> r,
         source |-> docs[r].source,
         id |-> docs[r].id]]

NoResponse == [kind |-> "none", context |-> <<>>]
\* "I couldn't find any relevant information to answer your question."
NoInformation == [kind |-> "no_information", context |-> <<>>]
\* "There was an error generating a response."
GenerationErrorText == [kind |-> "generation_error_text", context |-> <<>>]
Generated(prompt) == [kind |-> "generated", context |-> prompt]

NoCalls == [embed |-> 0, query |-> 0, generate |-> 0]
RagQueries == {<<" ">>, <<"a">>}
BackendResults == {"ok", "fail"}

RagIdle ==
  /\ rq_pc = "idle" /\ rq_impl = "none" /\ rq_query = <<>>
  /\ rq_embed = IdleCall /\ rq_search_attempts = 0 /\ rq_matches = <<>>
  /\ rq_gen_attempts = 0 /\ rq_prompt = <<>> /\ rq_response = NoResponse
  /\ rq_sources = <<>> /\ rq_calls = NoCalls

RagStart ==
  /\ rq_pc = "embed"
  /\ rq_impl \in {"process_query", "chat"}
  /\ rq_query \in RagQueries
  /\ rq_embed = NewCall(rq_query)
  /\ rq_search_attempts = 0 /\ rq_matches = <<>>
  /\ rq_gen_attempts = 0 /\ rq_prompt = <<>> /\ rq_response = NoResponse
  /\ rq_sources = <<>> /\ rq_calls = NoCalls

\* process_query: embed_query starts a backend attempt
PqEmbedIssue ==
  /\ rq_pc = "embed" /\ rq_impl = "process_query"
  /\ rq_embed.status = "ready"
  /\ rq_embed' = CallIssue(rq_embed)
  /\ rq_calls' = [rq_calls EXCEPT !.embed = @ + 1]
  /\ UNCHANGED <<rq_pc, rq_impl, rq_query, rq_search_attempts, rq_matches,
                 rq_gen_attempts, rq_prompt, rq_response, rq_sources>>
  /\ FrameRag

\* process_query: the attempt ends; a RetryError leaves process_query
PqEmbedResolve ==
  /\ rq_pc = "embed" /\ rq_impl = "process_query"
  /\ rq_embed.status = "inflight"
  /\ \E outcome \in Outcomes :
       /\ rq_embed' = CallResolve(rq_embed, outcome)
       /\ rq_pc' = IF rq_embed'.status = "returned" THEN "search"
                   ELSE IF rq_embed'.status = "raised" THEN "error"
                   ELSE "embed"
  /\ UNCHANGED <<rq_impl, rq_query, rq_search_attempts, rq_matches,
                 rq_gen_attempts, rq_prompt, rq_response, rq_sources, rq_calls>>
  /\ FrameRag

\* process_query: one attempt of similarity_search under its @retry decorator
PqSearch ==
  /\ rq_pc = "search" /\ rq_impl = "process_query"
  /\ rq_search_attempts' = rq_search_attempts + 1
  /\ rq_calls' = [rq_calls EXCEPT !.query = @ + 1]
  /\ \E result \in BackendResults :
       IF result = "ok"
       THEN /\ rq_matches' \in MatchLists
            /\ rq_pc' = "generate"
       ELSE /\ rq_matches' = rq_matches
            /\ rq_pc' = IF StopAfterAttempt(rq_search_attempts') THEN "error"
                        ELSE "search"
  /\ UNCHANGED <<rq_impl, rq_query, rq_embed, rq_gen_attempts, rq_prompt,
                 rq_response, rq_sources>>
  /\ FrameRag

\* process_query: one attempt of generate_response under its @retry decorator,
\* and on success the return of process_query
PqGenerate ==
  /\ rq_pc = "generate" /\ rq_impl = "process_query"
  /\ rq_gen_attempts' = rq_gen_attempts + 1
  /\ rq_prompt' = format_context(rq_matches)
  /\ rq_calls' = [rq_calls EXCEPT !.generate = @ + 1]
  /\ \E result \in BackendResults :
       IF result = "ok"
       THEN /\ rq_response' = Generated(rq_prompt')
            /\ rq_sources' = rq_matches
            /\ rq_pc' = "done"
       ELSE /\ UNCHANGED <<rq_response, rq_sources>>
            /\ rq_pc' = IF StopAfterAttempt(rq_gen_attempts') THEN "error"
                        ELSE "generate"
  /\ UNCHANGED <<rq_impl, rq_query, rq_embed, rq_search_attempts, rq_matches>>
  /\ FrameRag

\* chat: _get_embedding of a blank query returns the zero vector
ChatEmbedBlank ==
  /\ rq_pc = "embed" /\ rq_impl = "chat"
  /\ rq_embed.status = "ready"
  /\ IsBlank(rq_query)
  /\ rq_embed' = [rq_embed EXCEPT !.status = "returned", !.value = ZeroVector]
  /\ rq_pc' = "search"
  /\ UNCHANGED <<rq_impl, rq_query, rq_search_attempts, rq_matches,
                 rq_gen_attempts, rq_prompt, rq_response, rq_sources, rq_calls>>
  /\ FrameRag

\* chat: _get_embedding calls the embedding backend
ChatEmbedIssue ==
  /\ rq_pc = "embed" /\ rq_impl = "chat"
  /\ rq_embed.status = "ready"
  /\ ~IsBlank(rq_query)
  /\ rq_embed' = CallIssue(rq_embed)
  /\ rq_calls' = [rq_calls EXCEPT !.embed = @ + 1]
  /\ UNCHANGED <<rq_pc, rq_impl, rq_query, rq_search_attempts, rq_matches,
                 rq_gen_attempts, rq_prompt, rq_response, rq_sources>>
  /\ FrameRag

\* chat: _get_embedding returns the vector, or the zero vector on any error
ChatEmbedResolve ==
  /\ rq_pc = "embed" /\ rq_impl = "chat"
  /\ rq_embed.status = "inflight"
  /\ \E outcome \in Outcomes : rq_embed' = BotEmbedResult(rq_embed, outcome)
  /\ rq_pc' = "search"
  /\ UNCHANGED <<rq_impl, rq_query, rq_search_attempts, rq_matches,
                 rq_gen_attempts, rq_prompt, rq_response, rq_sources, rq_calls>>
  /\ FrameRag

\* chat: retrieve_documents queries the collection once
ChatSearch ==
  /\ rq_pc = "search" /\ rq_impl = "chat"
  /\ rq_search_attempts' = rq_search_attempts + 1
  /\ rq_calls' = [rq_calls EXCEPT !.query = @ + 1]
  /\ \E result \in BackendResults :
       IF result = "ok"
       THEN /\ rq_matches' \in MatchLists
            /\ rq_pc' = "generate"
       ELSE /\ rq_matches' = rq_matches
            /\ rq_pc' = "error"
  /\ UNCHANGED <<rq_impl, rq_query, rq_embed, rq_gen_attempts, rq_prompt,
                 rq_response, rq_sources>>
  /\ FrameRag

\* chat: generate_response without retrieved docs returns the canned answer
ChatNoDocs ==
  /\ rq_pc = "generate" /\ rq_impl = "chat"
  /\ rq_matches = <<>>
  /\ rq_response' = NoInformation
  /\ rq_sources' = rq_matches
  /\ rq_pc' = "done"
  /\ UNCHANGED <<rq_impl, rq_query, rq_embed, rq_search_attempts, rq_matches,
                 rq_gen_attempts, rq_prompt, rq_calls>>
  /\ FrameRag

\* chat: generate_response calls the model once; an error becomes an answer
ChatGenerate ==
  /\ rq_pc = "generate" /\ rq_impl = "chat"
  /\ rq_matches # <<>>
  /\ rq_gen_attempts' = rq_gen_attempts + 1
  /\ rq_prompt' = BotContext(rq_matches)
  /\ rq_calls' = [rq_calls EXCEPT !.generate = @ + 1]
  /\ \E result \in BackendResults :
       rq_response' = IF result = "ok" THEN Generated(rq_prompt')
                      ELSE GenerationErrorText
  /\ rq_sources' = rq_matches
  /\ rq_pc' = "done"
  /\ UNCHANGED <<rq_impl, rq_query, rq_embed, rq_search_attempts, rq_matches>>
  /\ FrameRag

NextRag ==
  \/ PqEmbedIssue \/ PqEmbedResolve \/ PqSearch \/ PqGenerate
  \/ ChatEmbedBlank \/ ChatEmbedIssue \/ ChatEmbedResolve \/ ChatSearch
  \/ ChatNoDocs \/ ChatGenerate

(***************************************************************************)
(* The vector store gateway (pinecone_service.py).  The callers are the    *)
(* coroutines of one process: each runs store_embeddings (ingest),         *)
(* similarity_search (query) or get_index_stats (stats).  get_index holds  *)
(* no await, so it runs as one step; every backend call made through       *)
(* asyncio.to_thread is a step of its own, between which the other         *)
(* callers run.  vs_index is the module's global _index, vs_exists says    *)
(* whether the backend lists the index, vs_stored holds the batches the    *)
(* backend has written, as <<caller, first entry, past last entry>>.       *)
(***************************************************************************)
BATCH_SIZE == 100
\* _index = None
NoIndex == 0

Callers == 1..MaxCallers
Ops == {"ingest", "query", "stats"}
EntryCounts == {0, 1, BATCH_SIZE + 1, MaxEntries}

\* create_index(name=..., dimension=768, metric="cosine")
INDEX_DIMENSION == 768
INDEX_METRIC == "cosine"

\* the create_index calls so far, and the arguments of the last one
NoCreate ==
  [calls |-> 0, succeeded |-> 0, on_existing |-> 0,
   dimension |-> 0, metric |-> "none"]

IdleCaller ==
  [op |-> "none", n |-> 0, pc |-> "idle", attempt |-> 0, i |-> 0,
   upserted_count |-> 0, index |-> NoIndex, batches |-> <<>>, sent |-> <<>>,
   error |-> "none"]

\* the number of batches of range(0, n, batch_size)
BatchCount(n) == (n + BATCH_SIZE - 1) \div BATCH_SIZE

NewCaller(op, n) ==
  [op |-> op, n |-> n, pc |-> "get_index", attempt |-> 1, i |-> 0,
   upserted_count |-> 0, index |-> NoIndex, batches |-> <<>>,
   sent |-> [b \in 1..BatchCount(n) |-> 0], error |-> "none"]

StoreIdle ==
  /\ vs_index = NoIndex /\ vs_handles = 0 /\ vs_exists = FALSE
  /\ vs_create = NoCreate /\ vs_stored = {}
  /\ vs_caller = [c \in Callers |-> IdleCaller]

StoreStart ==
  /\ vs_index = NoIndex /\ vs_handles = 0
  /\ vs_exists \in BOOLEAN
  /\ vs_create = NoCreate /\ vs_stored = {}
  /\ vs_caller \in [Callers ->
       {NewCaller("ingest", n) : n \in EntryCounts}
         \cup {NewCaller("query", 0), NewCaller("stats", 0)}]
  \* at most one of the concurrent ingests has entries to write
  /\ Cardinality({c \in Callers : vs_caller[c].n > 0}) <= 1

\* a create that runs whatever list_indexes answered
CreateAlways(exists) == TRUE
\* a get_index that never creates the index
CreateNever(exists) == FALSE
\* settings.PINECONE_INDEX_NAME not in pinecone.list_indexes()
IndexMissing(exists) == ~exists

\* get_index has returned the handle to the function that awaited it: the
\* function goes on to its first backend call, or returns when it has none
Enter(r, handle) ==
  IF r.op = "ingest"
  THEN [r EXCEPT !.index = handle, !.i = 0, !.upserted_count = 0,
                 !.batches = <<>>,
                 !.pc = IF r.n = 0 THEN "done" ELSE "upsert"]
  ELSE IF r.op = "query" THEN [r EXCEPT !.index = handle, !.pc = "query"]
  ELSE [r EXCEPT !.index = handle, !.pc = "describe"]

\* an exception leaves the function: store_embeddings and similarity_search
\* are decorated with @retry and start again, get_index_stats is not
Raise(r, error) ==
  IF r.op = "stats" THEN [r EXCEPT !.pc = "error", !.error = error]
  ELSE IF StopAfterAttempt(r.attempt)
       THEN [r EXCEPT !.pc = "error", !.error = "RetryError"]
       ELSE [r EXCEPT !.attempt = @ + 1, !.pc = "get_index", !.i = 0,
                      !.upserted_count = 0, !.batches = <<>>]

\* _index = pinecone.Index(...) is reached only when create_index did not raise
HandleAfterCreate(raised, handle) == IF raised THEN NoIndex ELSE handle

\* index = await get_index(), in one step
GetIndex(c) ==
  /\ vs_caller[c].pc = "get_index"
  /\ IF vs_index # NoIndex
     THEN /\ vs_caller' = [vs_caller EXCEPT ![c] = Enter(@, vs_index)]
          /\ UNCHANGED <<vs_index, vs_handles, vs_exists, vs_create>>
     ELSE \E listing \in BackendResults, creation \in BackendResults :
            IF listing = "fail"
            THEN /\ vs_caller' = [vs_caller EXCEPT ![c] = Raise(@, "list_indexes failed")]
                 /\ UNCHANGED <<vs_index, vs_handles, vs_exists, vs_create>>
            ELSE LET create == IndexMissing(vs_exists)
                     raised == create /\ creation = "fail"
                 IN /\ vs_create' =
                         IF create
                         THEN [calls |-> vs_create.calls + 1,
                               succeeded |-> vs_create.succeeded
                                               + (IF raised THEN 0 ELSE 1),
                               on_existing |-> vs_create.on_existing
                                               + (IF vs_exists THEN 1 ELSE 0),
                               dimension |-> INDEX_DIMENSION,
                               metric |-> INDEX_METRIC]
                         ELSE vs_create
                    /\ vs_exists' = (vs_exists \/ (create /\ ~raised))
                    /\ vs_index' = HandleAfterCreate(raised, vs_handles + 1)
                    /\ IF raised
                       THEN /\ vs_caller' =
                                 [vs_caller EXCEPT ![c] = Raise(@, "create_index failed")]
                            /\ UNCHANGED vs_handles
                       ELSE /\ vs_handles' = vs_handles + 1
                            /\ vs_caller' = [vs_caller EXCEPT ![c] = Enter(@, vs_index')]
  /\ UNCHANGED vs_stored
  /\ FrameStore

\* a batch one entry longer than the batch size
BatchEndWide(i, n) == Min(i + BATCH_SIZE + 1, n)

\* batch = vectors[i:i + batch_size], as the range of its entries
BatchEnd(i, n) == Min(i + BATCH_SIZE, n)
BatchNumber(i) == (i \div BATCH_SIZE) + 1

\* store_embeddings: one turn of the loop, the upsert of one batch
StoreUpsert(c) ==
  LET r == vs_caller[c]
      hi == BatchEnd(r.i, r.n)
      sent == [r EXCEPT !.batches = Append(@, <<r.i, hi>>),
                        !.sent[BatchNumber(r.i)] = @ + 1]
  IN /\ r.pc = "upsert"
     /\ \E result \in BackendResults :
          IF result = "ok"
          THEN /\ vs_stored' = vs_stored \cup {<<c, r.i, hi>>}
               /\ vs_caller' =
                    [vs_caller EXCEPT ![c] =
                       [sent EXCEPT !.upserted_count = @ + (hi - r.i),
                                    !.i = @ + BATCH_SIZE,
                                    !.pc = IF r.i + BATCH_SIZE < r.n
                                           THEN "upsert" ELSE "done"]]
          ELSE /\ vs_stored' = vs_stored
               /\ vs_caller' =
                    [vs_caller EXCEPT ![c] =
                       Raise(sent, "Error storing embeddings in Pinecone")]
     /\ UNCHANGED <<vs_index, vs_handles, vs_exists, vs_create>>
     /\ FrameStore

\* similarity_search: index.query
SearchQuery(c) ==
  /\ vs_caller[c].pc = "query"
  /\ \E result \in BackendResults :
       vs_caller' =
         [vs_caller EXCEPT ![c] =
            IF result = "ok" THEN [@ EXCEPT !.pc = "done"]
            ELSE Raise(@, "query failed")]
  /\ UNCHANGED <<vs_index, vs_handles, vs_exists, vs_create, vs_stored>>
  /\ FrameStore

\* get_index_stats: index.describe_index_stats
StatsDescribe(c) ==
  /\ vs_caller[c].pc = "describe"
  /\ \E result \in BackendResults :
       vs_caller' =
         [vs_caller EXCEPT ![c] =
            IF result = "ok" THEN [@ EXCEPT !.pc = "done"]
            ELSE Raise(@, "describe_index_stats failed")]
  /\ UNCHANGED <<vs_index, vs_handles, vs_exists, vs_create, vs_stored>>
  /\ FrameStore

NextStore ==
  \/ \E c \in Callers : GetIndex(c)
  \/ \E c \in Callers : StoreUpsert(c)
  \/ \E c \in Callers : SearchQuery(c)
  \/ \E c \in Callers : StatsDescribe(c)

(***************************************************************************)
(* The HTTP handlers: upload_pdf (routers/pdf.py), chat_endpoint           *)
(* (routers/chat.py), add_file and chat_with_bot (main.py).  A request     *)
(* carries a file (the extension of its name, whether its bytes can be     *)
(* parsed, and the text the parser extracts) or a query.  hp_status is the *)
(* status of the response once it is sent, hp_calls counts the backend     *)
(* operations (embedding, vector store, generation) entered for the        *)
(* request, and hp_exhausted names the operation under @retry that has     *)
(* used up its attempts for the request, if any.                           *)
(***************************************************************************)
NoStatus == 0
\* raise HTTPException(status_code=500, ...) of the handlers' except clauses
ExceptStatus == 500

Handlers == {"upload_pdf", "chat_endpoint", "add_file", "chat_with_bot"}
FileHandlers == {"upload_pdf", "add_file"}
SystemHandlers == {"health_check"}
FileExts == {".pdf", ".PDF", ".txt", ".docx"}

\* str.lower() on the extensions of the model
Lower(ext) == IF ext = ".PDF" THEN ".pdf" ELSE ext

FileRequest(ext, readable, text) ==
  [ext |-> ext, readable |-> readable, text |-> text, query |-> <<>>]
QueryRequest(query) ==
  [ext |-> "none", readable |-> FALSE, text |-> <<>>, query |-> query]
NoRequest == QueryRequest(<<>>)

\* the values of settings.GOOGLE_API_KEY: not configured, configured
GoogleKeys == {"", "key"}

\* the health report before health_check has run
NoHealth ==
  [key |-> "", probe |-> "none", status |-> "none",
   pinecone |-> "none", google_ai |-> "none", api |-> "none"]

HttpIdle ==
  /\ hp_pc = "idle" /\ hp_handler = "none" /\ hp_req = NoRequest
  /\ hp_status = NoStatus /\ hp_calls = 0 /\ hp_task = FALSE
  /\ hp_exhausted = "none"
  /\ hp_health = NoHealth

HttpStart ==
  /\ hp_pc = "request"
  /\ hp_handler \in Handlers \cup SystemHandlers
  /\ IF hp_handler \in FileHandlers
     THEN hp_req \in {FileRequest(ext, FALSE, <<>>) : ext \in FileExts}
                       \cup {FileRequest(ext, TRUE, text) :
                               ext \in FileExts, text \in EmbedTexts}
     ELSE IF hp_handler \in SystemHandlers
          THEN hp_req = NoRequest
          ELSE hp_req \in {QueryRequest(query) : query \in EmbedTexts}
  /\ hp_status = NoStatus /\ hp_calls = 0 /\ hp_task = FALSE
  /\ hp_exhausted = "none"
  /\ IF hp_handler \in SystemHandlers
     THEN \E key \in GoogleKeys : hp_health = [NoHealth EXCEPT !.key = key]
     ELSE hp_health = NoHealth

\* the response is sent
Respond(status) ==
  /\ hp_status' = status
  /\ hp_pc' = "responded"

\* extract_text_from_pdf keeps the pages whose text is not blank, and
\* chunk_text makes one chunk of a page that fits in a chunk
PageChunks(text) == IF IsBlank(text) THEN 0 ELSE 1

\* upload_pdf: the whole handler body is inside try ... except Exception,
\* so the HTTPException(400) of the file-type check and the ValueError of
\* process_pdf both leave through the except clause
UploadPdf ==
  /\ hp_pc = "request" /\ hp_handler = "upload_pdf"
  /\ IF Lower(hp_req.ext) # ".pdf" \/ ~hp_req.readable
     THEN /\ Respond(ExceptStatus)
          /\ UNCHANGED hp_task
     ELSE /\ hp_status' = 200
          /\ hp_task' = TRUE
          /\ hp_pc' = "background"
  /\ UNCHANGED <<hp_handler, hp_req, hp_calls>>
  /\ UNCHANGED <<hp_health, hp_exhausted>>
  /\ FrameHttp

\* process_pdf_background: await embed_chunks(...).  create_embeddings_batch
\* enters create_embedding once per chunk; a chunk whose gathered call has
\* used up its attempts is entered a second time, and whatever that second
\* call does (an embedding, or the zero vector after it fails too) the task
\* goes on to store_embeddings
PdfBackgroundEmbed ==
  /\ hp_pc = "background"
  /\ hp_calls = 0 /\ PageChunks(hp_req.text) > 0
  /\ \E result \in BackendResults :
       IF result = "ok"
       THEN /\ hp_calls' = hp_calls + PageChunks(hp_req.text)
            /\ UNCHANGED hp_exhausted
       ELSE /\ hp_calls' = hp_calls + 2 * PageChunks(hp_req.text)
            /\ hp_exhausted' = "create_embedding"
  /\ UNCHANGED <<hp_pc, hp_handler, hp_req, hp_status, hp_task>>
  /\ UNCHANGED hp_health
  /\ FrameHttp

\* process_pdf_background: await store_embeddings(...), which asks the
\* backend for the index even without chunks; the task ends, by an exception
\* that is printed and raised again when store_embeddings has used up its
\* attempts.  The response of upload_pdf was sent before the task began.
PdfBackgroundStore ==
  /\ hp_pc = "background"
  /\ hp_calls >= PageChunks(hp_req.text)
  /\ hp_calls' = hp_calls + 1
  /\ \E result \in BackendResults :
       hp_exhausted' = IF result = "ok" THEN hp_exhausted ELSE "store_embeddings"
  /\ hp_task' = FALSE
  /\ hp_pc' = "responded"
  /\ UNCHANGED <<hp_handler, hp_req, hp_status>>
  /\ UNCHANGED hp_health
  /\ FrameHttp

\* chat_endpoint: process_query(request.message), no check of the message;
\* first embed_query
ChatEndpointEmbed ==
  /\ hp_pc = "request" /\ hp_handler = "chat_endpoint"
  /\ hp_calls' = hp_calls + 1
  /\ \E result \in BackendResults :
       IF result = "ok"
       THEN hp_pc' = "search" /\ UNCHANGED <<hp_status, hp_exhausted>>
       ELSE Respond(ExceptStatus) /\ hp_exhausted' = "embed_query"
  /\ UNCHANGED <<hp_handler, hp_req, hp_task>>
  /\ UNCHANGED hp_health
  /\ FrameHttp

\* chat_endpoint: similarity_search
ChatEndpointSearch ==
  /\ hp_pc = "search"
  /\ hp_calls' = hp_calls + 1
  /\ \E result \in BackendResults :
       IF result = "ok"
       THEN hp_pc' = "generate" /\ UNCHANGED <<hp_status, hp_exhausted>>
       ELSE Respond(ExceptStatus) /\ hp_exhausted' = "similarity_search"
  /\ UNCHANGED <<hp_handler, hp_req, hp_task>>
  /\ UNCHANGED hp_health
  /\ FrameHttp

\* chat_endpoint: generate_response, then the response
ChatEndpointGenerate ==
  /\ hp_pc = "generate"
  /\ hp_calls' = hp_calls + 1
  /\ \E result \in BackendResults :
       IF result = "ok"
       THEN Respond(200) /\ UNCHANGED hp_exhausted
       ELSE Respond(ExceptStatus) /\ hp_exhausted' = "generate_response"
  /\ UNCHANGED <<hp_handler, hp_req, hp_task>>
  /\ UNCHANGED hp_health
  /\ FrameHttp

\* add_file: the file-type check is outside the try block, the parsing and
\* the empty-content check are inside it
AddFile ==
  /\ hp_pc = "request" /\ hp_handler = "add_file"
  /\ IF Lower(hp_req.ext) \notin {".pdf", ".txt"}
     THEN Respond(400)
     ELSE IF ~hp_req.readable \/ IsBlank(hp_req.text)
          THEN Respond(ExceptStatus)
          ELSE hp_pc' = "add_document" /\ UNCHANGED hp_status
  /\ UNCHANGED <<hp_handler, hp_req, hp_calls, hp_task>>
  /\ UNCHANGED <<hp_health, hp_exhausted>>
  /\ FrameHttp

\* add_file: chatbot.add_document embeds the chunk and adds it to the
\* collection
AddDocument ==
  /\ hp_pc = "add_document"
  /\ hp_calls' = hp_calls + PageChunks(hp_req.text) + 1
  /\ \E result \in BackendResults :
       IF result = "ok" THEN Respond(201) ELSE Respond(ExceptStatus)
  /\ UNCHANGED <<hp_handler, hp_req, hp_task>>
  /\ UNCHANGED <<hp_health, hp_exhausted>>
  /\ FrameHttp

\* chat_with_bot: the blank-query check is outside the try block
ChatWithBot ==
  /\ hp_pc = "request" /\ hp_handler = "chat_with_bot"
  /\ IF IsBlank(hp_req.query)
     THEN Respond(400)
     ELSE hp_pc' = "chat" /\ UNCHANGED hp_status
  /\ UNCHANGED <<hp_handler, hp_req, hp_calls, hp_task>>
  /\ UNCHANGED <<hp_health, hp_exhausted>>
  /\ FrameHttp

\* the backend operations chatbot.chat enters: embed_content and
\* collection.query, and llm.generate_content when documents were retrieved
BotChatCalls(result, docs) == IF result = "ok" /\ docs > 0 THEN 3 ELSE 2

\* chat_with_bot: chatbot.chat, a blocking call, runs as one step.  A failed
\* embedding becomes the zero vector and a failed generation an answer text;
\* only a failing collection.query leaves through the except clause
BotChat ==
  /\ hp_pc = "chat"
  /\ \E result \in BackendResults, docs \in 0..MaxMatches :
       /\ hp_calls' = hp_calls + BotChatCalls(result, docs)
       /\ IF result = "ok" THEN Respond(200) ELSE Respond(ExceptStatus)
  /\ UNCHANGED <<hp_handler, hp_req, hp_task>>
  /\ UNCHANGED <<hp_health, hp_exhausted>>
  /\ FrameHttp

\* health_check: the vector-store probe, await get_index_stats() inside the
\* inner try
HealthProbe ==
  /\ hp_pc = "request" /\ hp_handler = "health_check"
  /\ hp_calls' = hp_calls + 1
  /\ \E result \in BackendResults :
       hp_health' = [hp_health EXCEPT
                       !.probe = result,
                       !.pinecone = IF result = "ok" THEN "connected" ELSE "error"]
  /\ hp_pc' = "report"
  /\ UNCHANGED <<hp_handler, hp_req, hp_status, hp_task>>
  /\ UNCHANGED hp_exhausted
  /\ FrameHttp

\* a report that looks at the vector store only
HealthStatusOfProbe(pinecone_status, google_status) ==
  IF pinecone_status = "ok" THEN "healthy" ELSE "degraded"

\* "healthy" if pinecone_status == "ok" and google_status == "ok" else "degraded"
HealthStatus(pinecone_status, google_status) ==
  IF pinecone_status = "ok" /\ google_status = "ok" THEN "healthy" ELSE "degraded"

\* health_check: the credential check and the report
HealthReport ==
  /\ hp_pc = "report" /\ hp_handler = "health_check"
  /\ LET pinecone_status == IF hp_health.pinecone = "connected" THEN "ok" ELSE "error"
         google_status == IF hp_health.key = "" THEN "error" ELSE "ok"
     IN hp_health' = [hp_health EXCEPT
                        !.google_ai = IF google_status = "ok" THEN "connected"
                                      ELSE "error",
                        !.api = "ok",
                        !.status = HealthStatus(pinecone_status, google_status)]
  /\ Respond(200)
  /\ UNCHANGED <<hp_handler, hp_req, hp_calls, hp_task>>
  /\ UNCHANGED hp_exhausted
  /\ FrameHttp

NextHttp ==
  \/ HealthProbe \/ HealthReport
  \/ UploadPdf \/ PdfBackgroundEmbed \/ PdfBackgroundStore
  \/ ChatEndpointEmbed \/ ChatEndpointSearch \/ ChatEndpointGenerate
  \/ AddFile \/ AddDocument
  \/ ChatWithBot \/ BotChat

(***************************************************************************)
(* Configuration: Settings and validate_settings (config.py), and the      *)
(* chunker called with the configured defaults.                            *)
(***************************************************************************)
\* the values of an API key setting: missing (the default ""), provided
KeyValues == {"", "key"}

NoChunkerRun == [run |-> FALSE, size |-> 0, overlap |-> 0]

ConfigIdle ==
  /\ cf_settings = [GOOGLE_API_KEY |-> "", PINECONE_API_KEY |-> "",
                    PINECONE_ENVIRONMENT |-> "",
                    CHUNK_SIZE |-> CHUNK_SIZE, CHUNK_OVERLAP |-> CHUNK_OVERLAP]
  /\ cf_valid = "idle" /\ cf_chunker = NoChunkerRun

\* settings = Settings(): every value comes from the environment
ConfigStart ==
  /\ cf_settings \in [GOOGLE_API_KEY : KeyValues, PINECONE_API_KEY : KeyValues,
                       PINECONE_ENVIRONMENT : KeyValues,
                       CHUNK_SIZE : 1..MaxConfigSize,
                       CHUNK_OVERLAP : 0..MaxConfigSize]
  /\ cf_valid = "unchecked" /\ cf_chunker = NoChunkerRun

\* missing_keys is not empty
MissingKeys(settings) ==
  \/ settings.GOOGLE_API_KEY = ""
  \/ settings.PINECONE_API_KEY = ""
  \/ settings.PINECONE_ENVIRONMENT = ""

\* settings.validate_settings(): raises ValueError or returns
ValidateSettings ==
  /\ cf_valid = "unchecked"
  /\ cf_valid' = IF MissingKeys(cf_settings) THEN "rejected" ELSE "accepted"
  /\ UNCHANGED <<cf_settings, cf_chunker>>
  /\ FrameConfig

\* chunk_text(text, page_number, source) as process_pdf calls it: size and
\* overlap are the configured ones, read whatever validate_settings did;
\* nothing in the program calls validate_settings first
ConfiguredChunkText ==
  /\ cf_valid # "idle"
  /\ ~cf_chunker.run
  /\ cf_chunker' = [run |-> TRUE,
                    size |-> OrDefault(None, cf_settings.CHUNK_SIZE),
                    overlap |-> OrDefault(None, cf_settings.CHUNK_OVERLAP)]
  /\ UNCHANGED <<cf_settings, cf_valid>>
  /\ FrameConfig

NextConfig == ValidateSettings \/ ConfiguredChunkText

(***************************************************************************)
(* Chunk ids of the two ingest paths: uuid4 per chunk in chunk_text of     *)
(* pdf_processor, md5 of the content plus the chunk index in add_document. *)
(* A document is a run of n letters and is written as n.                   *)
(***************************************************************************)
DocLengths == {1, BotChunkSize + 1, 2 * BotChunkSize}

RECURSIVE PdfChunksFrom(_, _)
PdfChunksFrom(start, n) ==
  IF start >= n THEN 0
  ELSE 1 + PdfChunksFrom(PdfNextStart(start + CHUNK_SIZE, CHUNK_OVERLAP), n)

\* the number of chunks chunk_text makes of a page of n letters
PdfChunkCount(n) == IF n <= CHUNK_SIZE THEN 1 ELSE PdfChunksFrom(0, n)

RECURSIVE BotChunksFrom(_, _)
BotChunksFrom(start, n) ==
  IF start >= n THEN 0
  ELSE 1 + BotChunksFrom(BotNextStart(start, BotChunkSize, BotOverlap), n)

\* the number of chunks RAGChatbot.chunk_text makes of n letters
BotChunkCount(n) == IF n <= BotChunkSize THEN 1 ELSE BotChunksFrom(0, n)

\* str(uuid.uuid4()): a value no earlier call returned
Uuid4(k) == [kind |-> "uuid4", doc |-> 0, n |-> k]

\* hashlib.md5(content.encode()).hexdigest(): a function of the content
Md5(content) == content

\* f"{doc_id}_{i}"
BotChunkId(content, i) == [kind |-> "md5", doc |-> Md5(content), n |-> i]

IngestIdle == ig_ids = <<>> /\ ig_uuids = 0 /\ ig_ingests = -1

IngestStart == ig_ids = <<>> /\ ig_uuids = 0 /\ ig_ingests = 0

\* process_pdf of a one-page document: every chunk gets a uuid4 id
PdfIngest ==
  /\ ig_ingests >= 0 /\ ig_ingests < MaxIngests
  /\ \E content \in DocLengths :
       LET count == PdfChunkCount(content)
       IN /\ ig_ids' = ig_ids \o [i \in 1..count |-> Uuid4(ig_uuids + i)]
          /\ ig_uuids' = ig_uuids + count
  /\ ig_ingests' = ig_ingests + 1
  /\ FrameIngest

\* add_document: the chunk ids are made of the content's digest and the
\* chunk's index
BotIngest ==
  /\ ig_ingests >= 0 /\ ig_ingests < MaxIngests
  /\ \E content \in DocLengths :
       LET count == BotChunkCount(content)
       IN ig_ids' = ig_ids \o [i \in 1..count |-> BotChunkId(content, i - 1)]
  /\ ig_ingests' = ig_ingests + 1
  /\ UNCHANGED ig_uuids
  /\ FrameIngest

NextIngest == PdfIngest \/ BotIngest

(***************************************************************************)
(* The rate limiter (utils/rate_limiter.py).  rl_history is the dict       *)
(* request_history, a function from the ips that have a key to their lists *)
(* of timestamps; rl_now is the value time.time() returns; rl_task is the  *)
(* cleanup task, with the time at which its sleep ends.  is_rate_limited   *)
(* and one turn of the cleanup loop hold no await, so each is one step of  *)
(* the event loop.  rl_admitted keeps, for every ip, the times of all the  *)
(* requests that were let through, and rl_last the last verdict.           *)
(***************************************************************************)
\* current_time - ts < 60
RATE_WINDOW == 60
\* await asyncio.sleep(10)
CLEANUP_SLEEP == 10

ClientIps == {"10.0.0.1", "10.0.0.2"}
ExemptPaths == {"/", "/api/health", "/docs", "/redoc", "/openapi.json"}
RequestPaths == {"/api/health", "/api/chat"}
\* the time that passes between two steps of the event loop
ClockSteps == {CLEANUP_SLEEP, RATE_WINDOW - 1}

\* self.request_history = {}
NoHistory == [ip \in {} |-> <<>>]
\* self.cleanup_task = None
NoTask == [started |-> FALSE, wake |-> 0]
NoVerdict == [ip |-> "none", path |-> "none", verdict |-> "none"]

RateIdle ==
  /\ rl_requests = -1 /\ rl_limit = 0 /\ rl_now = 0
  /\ rl_history = NoHistory /\ rl_task = NoTask
  /\ rl_admitted = [ip \in ClientIps |-> <<>>]
  /\ rl_last = NoVerdict

\* RateLimiter(requests_per_minute)
RateStart ==
  /\ rl_requests = 0
  /\ rl_limit \in 0..MaxLimit
  /\ rl_now = 0
  /\ rl_history = NoHistory /\ rl_task = NoTask
  /\ rl_admitted = [ip \in ClientIps |-> <<>>]
  /\ rl_last = NoVerdict

\* [ts for ts in timestamps if current_time - ts < 60]
Recent(timestamps, current_time) ==
  SelectSeq(timestamps, LAMBDA ts : current_time - ts < RATE_WINDOW)

\* a test that lets one more request through
LimitExceeded(n, limit) == n > limit

\* len(self.request_history[ip]) >= self.requests_per_minute
LimitReached(n, limit) == n >= limit

\* the list of an ip, empty when the dict has no key for it
HistoryOf(history, ip) == IF ip \in DOMAIN history THEN history[ip] ELSE <<>>

\* self.request_history[ip] = timestamps
SetHistory(history, ip, timestamps) ==
  [k \in DOMAIN history \cup {ip} |->
     IF k = ip THEN timestamps ELSE history[k]]

\* start_cleanup_task: the task is created once and first runs at once
StartCleanupTask(task, now) ==
  IF task.started THEN task ELSE [started |-> TRUE, wake |-> now]

\* time.time() moves on between two steps
ClockAdvance ==
  /\ rl_requests >= 0
  /\ \E d \in ClockSteps :
       /\ rl_now + d <= MaxClock
       /\ rl_now' = rl_now + d
  /\ UNCHANGED <<rl_limit, rl_history, rl_task, rl_admitted, rl_last,
                 rl_requests>>
  /\ FrameRate

\* rate_limit_middleware, up to call_next or the raise of RateLimitExceeded,
\* with the call of is_rate_limited
RateLimitMiddleware ==
  /\ rl_requests >= 0 /\ rl_requests < MaxRequests
  /\ \E ip \in ClientIps, path \in RequestPaths :
       LET kept == Recent(HistoryOf(rl_history, ip), rl_now)
       IN IF path \in ExemptPaths
          THEN /\ rl_last' = [ip |-> ip, path |-> path, verdict |-> "exempt"]
               /\ UNCHANGED <<rl_history, rl_admitted>>
          ELSE IF LimitReached(Len(kept), rl_limit)
          THEN /\ rl_history' = SetHistory(rl_history, ip, kept)
               /\ rl_last' = [ip |-> ip, path |-> path, verdict |-> "rejected"]
               /\ UNCHANGED rl_admitted
          ELSE /\ rl_history' = SetHistory(rl_history, ip, Append(kept, rl_now))
               /\ rl_admitted' = [rl_admitted EXCEPT ![ip] = Append(@, rl_now)]
               /\ rl_last' = [ip |-> ip, path |-> path, verdict |-> "admitted"]
  /\ rl_task' = StartCleanupTask(rl_task, rl_now)
  /\ rl_requests' = rl_requests + 1
  /\ UNCHANGED <<rl_limit, rl_now>>
  /\ FrameRate

\* one turn of _cleanup_old_requests, then asyncio.sleep(10)
CleanupOldRequests ==
  /\ rl_requests >= 0
  /\ rl_task.started /\ rl_now >= rl_task.wake
  /\ LET kept == [ip \in DOMAIN rl_history |-> Recent(rl_history[ip], rl_now)]
     IN rl_history' = [ip \in {k \in DOMAIN kept : kept[k] # <<>>} |-> kept[ip]]
  /\ rl_task' = [rl_task EXCEPT !.wake = rl_now + CLEANUP_SLEEP]
  /\ UNCHANGED <<rl_limit, rl_now, rl_admitted, rl_last, rl_requests>>
  /\ FrameRate

NextRate == ClockAdvance \/ RateLimitMiddleware \/ CleanupOldRequests

(***************************************************************************)
(* Specifications.                                                         *)
(***************************************************************************)
EmbedIdle == SingleIdle /\ BatchIdle
OthersIdle == ConfigIdle /\ IngestIdle /\ RateIdle
InitClean ==
  /\ CleanStart /\ ChunkIdle /\ EmbedIdle /\ RagIdle /\ StoreIdle /\ HttpIdle
  /\ OthersIdle
InitChunk ==
  /\ CleanIdle /\ ChunkStart /\ EmbedIdle /\ RagIdle /\ StoreIdle /\ HttpIdle
  /\ OthersIdle
InitRag ==
  /\ CleanIdle /\ ChunkIdle /\ EmbedIdle /\ RagStart /\ StoreIdle /\ HttpIdle
  /\ OthersIdle
InitStore ==
  /\ CleanIdle /\ ChunkIdle /\ EmbedIdle /\ RagIdle /\ StoreStart /\ HttpIdle
  /\ OthersIdle
InitHttp ==
  /\ CleanIdle /\ ChunkIdle /\ EmbedIdle /\ RagIdle /\ StoreIdle /\ HttpStart
  /\ OthersIdle
InitEmbed ==
  /\ CleanIdle /\ ChunkIdle /\ RagIdle /\ StoreIdle /\ HttpIdle
  /\ OthersIdle
  /\ \/ SingleStart /\ BatchIdle
     \/ SingleIdle /\ BatchStart
InitConfig ==
  /\ CleanIdle /\ ChunkIdle /\ EmbedIdle /\ RagIdle /\ StoreIdle /\ HttpIdle
  /\ ConfigStart /\ IngestIdle /\ RateIdle
InitIngest ==
  /\ CleanIdle /\ ChunkIdle /\ EmbedIdle /\ RagIdle /\ StoreIdle /\ HttpIdle
  /\ ConfigIdle /\ IngestStart /\ RateIdle
InitRate ==
  /\ CleanIdle /\ ChunkIdle /\ EmbedIdle /\ RagIdle /\ StoreIdle /\ HttpIdle
  /\ ConfigIdle /\ IngestIdle /\ RateStart

SpecClean == InitClean /\ [][NextClean]_vars
SpecChunk == InitChunk /\ [][NextChunk]_vars
SpecEmbed == InitEmbed /\ [][NextEmbed]_vars
SpecRag == InitRag /\ [][NextRag]_vars
SpecStore == InitStore /\ [][NextStore]_vars
SpecHttp == InitHttp /\ [][NextHttp]_vars
SpecConfig == InitConfig /\ [][NextConfig]_vars
SpecIngest == InitIngest /\ [][NextIngest]_vars
SpecRate == InitRate /\ [][NextRate]_vars

Init ==
  \/ InitClean \/ InitChunk \/ InitEmbed \/ InitRag \/ InitStore \/ InitHttp
  \/ InitConfig \/ InitIngest \/ InitRate
Next ==
  \/ NextClean \/ NextChunk \/ NextEmbed \/ NextRag \/ NextStore \/ NextHttp
  \/ NextConfig \/ NextIngest \/ NextRate
Spec == Init /\ [][Next]_vars

(***************************************************************************)
(* Properties of the embedding gateway.                                    *)
(***************************************************************************)
Failed(outcome) == outcome # "ok"
RetriedImpl == em_impl \in {"create_embedding", "embed_query"}

\* C1: create_embeddings_batch returns one vector per input text, the vector
\* at index k being the backend vector of texts[k] or its zero-vector
\* fallback, for every batch size and every pattern of backend outcomes; it
\* never stops before returning.
C1_BatchAligned ==
  /\ eb_pc = "done" =>
       /\ Len(eb_out) = Len(eb_texts)
       /\ \A k \in 1..Len(eb_texts) :
            \/ eb_out[k] = ZeroVector
            \/ \E a \in 1..3 : eb_out[k] = BackendVector(eb_texts[k], a)
  /\ eb_pc \notin {"idle", "done"} => ENABLED NextBatch

\* a batch of three texts in groups of two has returned with a backend vector
\* first, a fallback second and a vector obtained by the isolated retry third
C1_Witness ==
  /\ eb_pc = "done"
  /\ Len(eb_texts) = 3 /\ eb_batch_size = 2
  /\ eb_out[1] = BackendVector(eb_texts[1], 2)
  /\ eb_out[2] = ZeroVector
  /\ eb_out[3] = BackendVector(eb_texts[3], 1)
  /\ eb_attempts = <<2, 6, 4>>

\* C3: embedding an empty or whitespace-only text makes no backend call and
\* returns the zero vector (create_embedding, embed_query, _get_embedding).
C3_BlankMakesNoCall ==
  (em_pc # "idle" /\ IsBlank(em_call.text)) =>
    /\ em_call.attempts = 0
    /\ em_pc = "done" => (em_call.status = "returned" /\ em_call.value = ZeroVector)

\* C4: create_embedding makes at most 3 backend attempts; after two failures
\* it tries a third time and returns that attempt's vector if it succeeds;
\* after three failures it raises and makes no further attempt.
C4_ThreeAttempts ==
  RetriedImpl =>
    /\ em_call.attempts <= 3
    /\ Len(em_log) <= 3
    /\ (Len(em_log) = 2 /\ Failed(em_log[1]) /\ Failed(em_log[2])) =>
         (em_pc = "call" /\ em_call.status \in {"ready", "inflight"})
    /\ (Len(em_log) = 3 /\ Failed(em_log[1]) /\ Failed(em_log[2]) /\ em_log[3] = "ok") =>
         /\ em_pc = "done" /\ em_call.status = "returned"
         /\ em_call.value = BackendVector(em_call.text, 3)
         /\ em_call.attempts - 1 = 2
    /\ (Len(em_log) = 3 /\ \A k \in 1..3 : Failed(em_log[k])) =>
         /\ em_pc = "done" /\ em_call.status = "raised"
         /\ em_call.attempts = 3
    /\ em_pc = "done" => ~ENABLED NextSingle

\* the backend failed twice and then succeeded
C4_Witness ==
  /\ RetriedImpl
  /\ em_log = <<"transient", "transient", "ok">>
  /\ em_call.status = "returned"
  /\ em_call.value = BackendVector(em_call.text, 3)

\* C5: an invalid credential reported by the embedding backend is surfaced
\* after exactly one backend attempt, with the invalid-key error.
C5_AuthNotRetried ==
  (RetriedImpl /\ em_log # <<>> /\ em_log[1] = "auth") =>
    /\ em_call.attempts = 1
    /\ em_pc = "done" =>
         /\ em_call.status = "raised"
         /\ em_call.error.cause = "Invalid Google API key"
(***************************************************************************)
(* Properties of the chunkers and of the cleaner.                          *)
(***************************************************************************)
\* the character positions of the text that the slice text[start:end] holds
WindowPositions(w) ==
  {p \in 0..(Len(ck_text) - 1) :
     /\ SliceIndex(w.start, Len(ck_text)) <= p
     /\ p < SliceIndex(w.end, Len(ck_text))}

\* the windows whose chunks are emitted: all of them in chunk_text; in
\* RAGChatbot.chunk_text the one window of a text that fits, blank or not,
\* and on the loop path those whose stripped slice is not empty
EmittedWindows ==
  IF ck_impl = "bot" /\ ~FitsInOneChunk(ck_text, ck_size)
  THEN SelectSeq(ck_windows,
                 LAMBDA w : Strip(Slice(ck_text, w.start, w.end)) # <<>>)
  ELSE ck_windows

\* the position lies inside the window of a returned chunk
Covered(p) ==
  \E w \in 1..Len(EmittedWindows) : p \in WindowPositions(EmittedWindows[w])

\* C6: the window start strictly increases on every iteration of the sliding
\* loop, for every text and every 0 <= overlap < maxSize.
C6_StartIncreases ==
  [][(ck_pc = "loop" /\ ck_windows' # ck_windows) => ck_start' > ck_start]_vars

\* C7: when the text is longer than maxSize, the returned chunks are the
\* stripped texts of their windows, and every character position of the text
\* lies inside the window of at least one returned chunk.
C7_WindowsCoverText ==
  (ck_pc = "done" /\ Len(ck_text) > ck_size) =>
    /\ Len(ck_chunks) = Len(EmittedWindows)
    /\ \A w \in 1..Len(EmittedWindows) :
         ck_chunks[w] =
           Strip(Slice(ck_text, EmittedWindows[w].start, EmittedWindows[w].end))
    /\ \A p \in 0..(Len(ck_text) - 1) : Covered(p)

\* C8: consecutive windows share between 0 and overlap characters, for every
\* overlap passed to the chunker, 0 included.
C8_SharedWithinOverlap ==
  ck_overlap_arg # None =>
    \A w \in 1..(Len(ck_windows) - 1) :
      LET shared == ck_windows[w].end - ck_windows[w + 1].start
      IN 0 <= shared /\ shared <= ck_overlap_arg[1]

\* C9: a text longer than maxSize with a newline at offset 60% of maxSize and
\* no later newline in the first window has its first chunk end at that
\* newline.
C9_EndsAtParagraphBreak ==
  \A p \in 1..MaxChunkSize :
    ( /\ ck_impl = "pdf" /\ ck_pc \in {"loop", "done"}
      /\ ck_size_arg # None /\ 10 * p = 6 * ck_size
      /\ Len(ck_raw) > ck_size
      /\ Len(clean_text(ck_raw)) = Len(ck_raw)
      /\ ck_raw[p + 1] = "\n"
      /\ \A q \in (p + 2)..ck_size : ck_raw[q] # "\n"
      /\ ck_chunks # <<>> )
    => ck_chunks[1] = Strip(Slice(ck_raw, 0, p + 1))

\* C20: every chunk emitted by the chunkers, on the single-chunk path and on
\* the sliding-window path, has non-empty text, whatever the input text.
C20_ChunksNonEmpty ==
  \A k \in 1..Len(ck_chunks) : ck_chunks[k] # <<>>

\* C25: a text of length at most maxSize, length exactly maxSize included,
\* gives exactly one chunk, whose text is the whole text (for chunk_text of
\* pdf_processor, the text as it stands after the function's cleaning).
C25_ShortTextIsOneChunk ==
  (ck_pc \in {"loop", "done"} /\ Len(ck_text) <= ck_size) =>
    /\ ck_pc = "done"
    /\ ck_chunks = <<ck_text>>
    /\ ck_windows = <<[start |-> 0, end |-> Len(ck_text)]>>

\* chunk_text of pdf_processor has returned a text of exactly maxSize
\* characters, a paragraph break among them, as its only chunk
C25_Witness ==
  /\ ck_pc = "done" /\ ck_impl = "pdf"
  /\ ck_size_arg # None /\ Len(ck_text) = ck_size /\ ck_size >= 3
  /\ \E p \in 1..Len(ck_text) : ck_text[p] = " "
  /\ ck_chunks = <<ck_text>>

\* the offsets in a window at which a separator occurs
OffsetsOf(win, sep) ==
  {o \in 0..(Len(win) - Len(sep)) : SubSeq(win, o + 1, o + Len(sep)) = sep}

\* the window end the chunking rule prescribes for a window starting at start
RuleEnd(text, start, size) ==
  LET win == Slice(text, start, start + size)
      newlines == OffsetsOf(win, <<"\n">>)
      sentences == OffsetsOf(win, <<".", " ">>)
  IN IF start + size >= Len(text) THEN start + size
     ELSE IF \E p \in newlines :
               /\ 2 * p > size
               /\ \A q \in newlines : q <= p
          THEN start + 1 + CHOOSE p \in newlines : \A q \in newlines : q <= p
     ELSE IF \E x \in sentences :
               /\ 2 * x > size
               /\ \A q \in sentences : q <= x
          THEN start + 2 + CHOOSE x \in sentences : \A q \in sentences : q <= x
     ELSE start + size

\* C29: a window whose raw end lies strictly inside the text ends right after
\* its last newline when that is at an offset above maxSize * 0.5 (before any
\* sentence break), else right after its last ". " when that is at an offset
\* above maxSize * 0.5, else at exactly maxSize characters; no chunk is longer
\* than maxSize and a window that reaches the text end is not shortened. The
\* rule is checked on every window the loop has produced and, for the
\* precedence of the newline, on the window computation applied to the text
\* as it was before cleaning.
C29_WindowEndsAtBreak ==
  (ck_impl = "pdf" /\ ck_pc \in {"loop", "done"}) =>
    /\ \A w \in 1..Len(ck_windows) :
         /\ Len(ck_chunks[w]) <= ck_size
         /\ Len(ck_text) > ck_size =>
              /\ ck_windows[w].end =
                   RuleEnd(ck_text, ck_windows[w].start, ck_size)
              /\ ck_chunks[w] =
                   Strip(Slice(ck_text, ck_windows[w].start, ck_windows[w].end))
    /\ \A start \in 0..Len(ck_raw) :
         PdfWindowEnd(ck_raw, start, ck_size) = RuleEnd(ck_raw, start, ck_size)

\* chunk_text has returned for a text whose first raw window holds a newline
\* and a ". ", both above half of maxSize, the window computation ending it
\* after the newline; of the windows returned, one inside the text ends right
\* after its last ". " and the last one reaches the text end unshortened
C29_Witness ==
  /\ ck_impl = "pdf" /\ ck_pc = "done" /\ Len(ck_text) > ck_size
  /\ \E w \in 1..Len(ck_windows) :
       LET win == Slice(ck_text, ck_windows[w].start, ck_windows[w].start + ck_size)
       IN /\ ck_windows[w].start >= 0
          /\ ck_windows[w].start + ck_size < Len(ck_text)
          /\ \E x \in OffsetsOf(win, <<".", " ">>) :
               /\ 2 * x > ck_size
               /\ ck_windows[w].end = ck_windows[w].start + x + 2
  /\ ck_windows[Len(ck_windows)].end =
       ck_windows[Len(ck_windows)].start + ck_size
  /\ ck_windows[Len(ck_windows)].end >= Len(ck_text)
  /\ LET win == Slice(ck_raw, 0, ck_size)
     IN \E p \in OffsetsOf(win, <<"\n">>), x \in OffsetsOf(win, <<".", " ">>) :
          /\ 2 * p > ck_size /\ 2 * x > ck_size
          /\ ck_size < Len(ck_raw)
          /\ PdfWindowEnd(ck_raw, 0, ck_size) = p + 1
          /\ p + 1 # x + 2

\* C26: in create_embeddings_batch a text whose embedding failed inside its
\* group gets exactly one further create_embedding call, issued while nothing
\* else is in flight; the output at that text's index is the retry's vector
\* if the retry succeeds and the zero vector if it fails, and the outputs at
\* the other indices are left as they are.
C26_FailedTextRetriedOnce ==
  [][ /\ (eb_pc = "collect" /\ eb_j <= Len(eb_tasks)
           /\ eb_tasks[eb_j].status = "raised") =>
            /\ eb_pc' = "retry" /\ eb_retry' = NewCall(eb_texts[eb_i + eb_j])
            /\ eb_j' = eb_j /\ eb_out' = eb_out
      /\ (eb_pc = "collect" /\ eb_j <= Len(eb_tasks)
           /\ eb_tasks[eb_j].status = "returned") =>
            /\ eb_pc' = "collect" /\ eb_j' = eb_j + 1
            /\ eb_out' = Append(eb_out, eb_tasks[eb_j].value)
      /\ eb_pc = "retry" =>
            /\ eb_tasks[eb_j].status = "raised"
            /\ Len(eb_out) = eb_i + eb_j - 1
            /\ \A k \in 1..Len(eb_tasks) : eb_tasks[k].status # "inflight"
            /\ eb_pc' = "retry" => (eb_j' = eb_j /\ eb_out' = eb_out)
            /\ eb_pc' # "retry" =>
                 /\ eb_pc' = "collect" /\ eb_j' = eb_j + 1
                 /\ eb_retry.status = "inflight"
                 /\ \E outcome \in Outcomes :
                      LET c == CallResolve(eb_retry, outcome)
                      IN \/ /\ outcome = "ok"
                            /\ eb_out' = Append(eb_out, c.value)
                            /\ c.value = BackendVector(eb_texts[eb_i + eb_j],
                                                       eb_retry.attempts)
                         \/ /\ outcome # "ok" /\ c.status = "raised"
                            /\ eb_out' = Append(eb_out, ZeroVector)
    ]_vars

\* a batch of three texts has returned: one text embedded at once, one whose
\* isolated retry succeeded and one whose isolated retry failed as well
C26_Witness ==
  /\ eb_pc = "done" /\ Len(eb_texts) = 3 /\ Len(eb_out) = 3
  /\ \E k \in 1..3 : eb_attempts[k] <= 3 /\ eb_out[k] # ZeroVector
  /\ \E k \in 1..3 : eb_attempts[k] >= 4 /\ eb_out[k] # ZeroVector
  /\ \E k \in 1..3 : eb_attempts[k] = 6 /\ eb_out[k] = ZeroVector

\* the embedding backend calls in flight: the gathered tasks and the
\* isolated retry
InFlight ==
  Cardinality({k \in 1..Len(eb_tasks) : eb_tasks[k].status = "inflight"})
  + (IF eb_retry.status = "inflight" THEN 1 ELSE 0)

\* C27: during create_embeddings_batch at most batchSize backend calls are in
\* flight at any moment, and a backend call for a text is issued only when
\* every text of the earlier groups has its output, so after every call of
\* those groups, isolated retries included, has completed.
C27_GroupsInOrder ==
  [][ /\ InFlight <= eb_batch_size
      /\ InFlight' <= eb_batch_size'
      /\ \A k \in 1..Len(eb_texts) :
           (eb_attempts' # <<>> /\ eb_attempts'[k] > eb_attempts[k]) =>
             LET group == ((k - 1) \div eb_batch_size) * eb_batch_size
             IN /\ eb_i = group
                /\ Len(eb_out) >= group
                /\ \A t \in 1..Len(eb_tasks) :
                     eb_tasks[t].text = eb_texts[group + t]
                /\ eb_retry.status # "idle" => eb_i + eb_j > group
    ]_vars

\* the second group of a batch of three texts in groups of two has its call
\* in flight, after a first group of two one of whose texts went through an
\* isolated retry and both of whose outputs are in place
C27_Witness ==
  /\ eb_pc = "gather" /\ eb_batch_size = 2 /\ Len(eb_texts) = 3
  /\ eb_i = 2 /\ eb_tasks[1].status = "inflight"
  /\ Len(eb_out) = 2
  /\ eb_attempts[1] >= 4 /\ eb_attempts[2] >= 1

\* C10: cleaning a cleaned text changes nothing.
C10_CleanIdempotent ==
  cl_pc = "twice" => cl_twice = cl_once

(***************************************************************************)
(* Properties of the RAG orchestration.                                    *)
(***************************************************************************)
\* C2: a query whose retrieval returned no matches never reaches the
\* generation backend and ends with the canned no-information answer and an
\* empty list of sources (process_query and RAGChatbot.chat).
Retrieved == rq_pc \in {"generate", "done"} \/ rq_gen_attempts > 0

C2_NoMatchesNoGeneration ==
  (Retrieved /\ rq_matches = <<>>) =>
    /\ rq_calls.generate = 0
    /\ rq_pc = "done" => (rq_response = NoInformation /\ rq_sources = <<>>)

\* the embedding of the query failed: embed_query raised after its attempts,
\* or the single backend attempt of _get_embedding raised
QueryEmbedFailed ==
  \/ rq_embed.status = "raised"
  \/ /\ rq_impl = "chat" /\ rq_embed.attempts > 0
     /\ rq_embed.status = "returned" /\ rq_embed.value = ZeroVector

\* C11: when embedding the query fails, neither the vector-store query nor
\* the generation backend is invoked for it, and the query ends in an error
\* (process_query and RAGChatbot.chat).
C11_EmbedFailureStopsQuery ==
  QueryEmbedFailed =>
    /\ rq_calls.query = 0
    /\ rq_calls.generate = 0
    /\ rq_pc \in {"done", "error"} => rq_pc = "error"

\* the ids of the matches rendered into the prompt
PromptIds == {rq_prompt[r].id : r \in 1..Len(rq_prompt)}

\* C12: when more than 3 matches were retrieved, the prompt sent to the
\* generation backend holds exactly 3 of them, none scoring below a match left
\* out, and all retrieved matches are returned to the caller as sources.
C12_PromptHasTopThree ==
  (Len(rq_matches) > 3 /\ rq_calls.generate > 0) =>
    /\ Len(rq_prompt) = 3
    /\ Cardinality(PromptIds) = 3
    /\ \A a, b \in 1..Len(rq_matches) :
         (rq_matches[a].id \in PromptIds /\ rq_matches[b].id \notin PromptIds)
           => rq_matches[a].score >= rq_matches[b].score
    /\ rq_pc = "done" => rq_sources = rq_matches

\* the position in the retrieved list of the match rendered at rank r
RetrievedAt(r) ==
  CHOOSE k \in 1..Len(rq_matches) : rq_matches[k].id = rq_prompt[r].id

\* C13: the context rendered into the prompt lists matches in non-increasing
\* score order whatever the order they were retrieved in, the block at rank r
\* being labelled "CONTEXT CHUNK r" with that match's source and page, and
\* matches of equal score keeping their retrieved order.
C13_ContextInScoreOrder ==
  rq_calls.generate > 0 =>
    /\ \A r \in 1..Len(rq_prompt) :
         /\ rq_prompt[r].id \in {rq_matches[k].id : k \in 1..Len(rq_matches)}
         /\ rq_prompt[r].label = "CONTEXT CHUNK"
         /\ rq_prompt[r].rank = r
         /\ rq_prompt[r].source = rq_matches[RetrievedAt(r)].source
         /\ rq_prompt[r].page = rq_matches[RetrievedAt(r)].page
    /\ \A r, t \in 1..Len(rq_prompt) :
         r < t =>
           \/ rq_matches[RetrievedAt(r)].score > rq_matches[RetrievedAt(t)].score
           \/ /\ rq_matches[RetrievedAt(r)].score = rq_matches[RetrievedAt(t)].score
              /\ RetrievedAt(r) < RetrievedAt(t)

InScoreOrder(q) ==
  \A a, b \in 1..Len(q) : a < b => q[a].score >= q[b].score

\* C17: the matches returned by similarity_search, and the sources that
\* process_query returns to its caller, are in non-increasing score order for
\* whatever order the backend response lists them in.
C17_MatchesInScoreOrder ==
  rq_impl = "process_query" =>
    /\ InScoreOrder(rq_matches)
    /\ InScoreOrder(rq_sources)

\* C19: a failing generation call is retried up to 3 attempts in total; when
\* all fail the query ends in an error, and a generation failure is never
\* returned to the caller as a normal answer.
C19_GenerationFailureSurfaces ==
  /\ rq_gen_attempts <= 3
  /\ (rq_pc = "error" /\ rq_gen_attempts > 0) => rq_gen_attempts = 3
  /\ rq_pc = "done" => rq_response.kind \in {"generated", "no_information"}

\* C28: a run of process_query makes its backend attempts in the order embed,
\* retrieve, generate, a step's first attempt only after the previous step
\* returned, never more than 3 attempts of a step, and is never left in a
\* step with its attempts used up: it ends with the answer or with an error.
C28_StepsInOrder ==
  [][ rq_impl = "process_query" =>
        /\ rq_calls.embed <= 3 /\ rq_calls.query <= 3 /\ rq_calls.generate <= 3
        /\ rq_calls'.embed <= 3 /\ rq_calls'.query <= 3
        /\ rq_calls'.generate <= 3
        /\ rq_calls'.embed > rq_calls.embed =>
             rq_calls.query = 0 /\ rq_calls.generate = 0
        /\ rq_calls'.query > rq_calls.query =>
             /\ rq_embed.status = "returned" /\ rq_calls.embed >= 1
             /\ rq_calls.generate = 0
        /\ rq_calls'.generate > rq_calls.generate =>
             /\ rq_embed.status = "returned" /\ rq_calls.query >= 1
             /\ rq_pc = "generate"
        /\ (rq_pc = "search" /\ rq_pc' = "generate") =>
             rq_calls'.query > rq_calls.query
        /\ rq_pc' \in {"embed", "search", "generate"} =>
             /\ (ENABLED NextRag)'
             /\ rq_pc' = "embed" =>
                  (rq_embed'.status = "inflight" \/ rq_calls'.embed < 3)
             /\ rq_pc' = "search" => rq_calls'.query < 3
             /\ rq_pc' = "generate" => rq_calls'.generate < 3
        /\ rq_pc \in {"done", "error"} => rq_pc' \notin {"search", "generate"}
    ]_vars

\* process_query has returned its answer after three attempts of each step
C28_Witness ==
  /\ rq_impl = "process_query" /\ rq_pc = "done"
  /\ rq_calls = [embed |-> 3, query |-> 3, generate |-> 3]
  /\ rq_response.kind = "generated"

(***************************************************************************)
(* Properties of the vector store gateway.                                 *)
(***************************************************************************)
\* batch number b of caller c's entries, as the backend stores it
StoredBatch(c, b) ==
  <<c, (b - 1) * BATCH_SIZE, BatchEnd((b - 1) * BATCH_SIZE, vs_caller[c].n)>>

\* C14: when the write of batch k of an upsert fails, the batches written
\* before it stay committed and are not sent to the backend again: a batch is
\* sent only while the backend has not written it, at most 3 times, and after
\* the last failure the storage error is surfaced.
C14_OnlyFailedBatchRetried ==
  [][\A c \in Callers :
       /\ vs_stored \subseteq vs_stored'
       /\ \A b \in 1..Len(vs_caller[c].sent) :
            /\ vs_caller'[c].sent[b] <= 3
            /\ vs_caller'[c].sent[b] > vs_caller[c].sent[b]
                 => StoredBatch(c, b) \notin vs_stored
       /\ (vs_caller[c].pc = "upsert" /\ vs_caller'[c].pc = "error")
            => vs_caller'[c].error = "RetryError"]_vars

\* C15: get_index_stats has no side effects: no step of a stats caller, in
\* any state (the index missing included), creates the index, writes a vector
\* or changes the process's shared index handle.
C15_StatsHasNoSideEffects ==
  [][\A c \in Callers :
       (vs_caller[c].op = "stats" /\ vs_caller'[c] # vs_caller[c])
         => UNCHANGED <<vs_index, vs_exists, vs_create, vs_stored>>]_vars

\* every caller that holds an index handle holds the process's shared one
SharedHandle ==
  \A c \in Callers :
    vs_caller[c].index # NoIndex => vs_caller[c].index = vs_index

\* C16 as stated: over any interleaving of concurrent ingest, query and stats
\* callers, create-index is invoked at most once and never when the index
\* already exists, and every caller uses the same shared index handle.
C16_CreateInvokedAtMostOnce ==
  /\ vs_create.calls <= 1
  /\ vs_create.on_existing = 0
  /\ SharedHandle

\* C16, amended: over any interleaving of concurrent ingest, query and stats
\* callers, create-index is invoked only while the index is missing and no
\* handle is shared yet, never when the index already exists and never again
\* after an invocation has succeeded (at most one succeeds, a repeated
\* invocation follows a failed one); one index handle is ever constructed and
\* every caller uses it.
C16_CreateSucceedsAtMostOnce ==
  [][/\ vs_create'.calls > vs_create.calls
          => (~vs_exists /\ vs_index = NoIndex /\ vs_create.succeeded = 0)
     /\ vs_create'.succeeded <= 1
     /\ vs_create'.on_existing = 0
     /\ vs_handles' <= 1
     /\ SharedHandle']_vars

\* the first create-index failed, the second succeeded, and now a stats
\* caller has finished while an ingest is between two batches, both on the
\* one shared handle
C16_Witness ==
  /\ vs_create.calls = 2 /\ vs_create.succeeded = 1
  /\ vs_create.on_existing = 0
  /\ vs_index # NoIndex
  /\ \E c, d \in Callers :
       /\ vs_caller[c].op = "ingest" /\ vs_caller[c].pc = "upsert"
       /\ vs_caller[c].i > 0
       /\ vs_caller[d].op = "stats" /\ vs_caller[d].pc = "done"
       /\ vs_caller[c].index = vs_index /\ vs_caller[d].index = vs_index

(***************************************************************************)
(* Properties of the HTTP handlers.                                        *)
(***************************************************************************)
\* the request carries an input error: a blank query, or a file of an
\* unsupported format, unreadable, or without text
InputError ==
  IF hp_handler \in FileHandlers
  THEN \/ Lower(hp_req.ext) \notin
            (IF hp_handler = "upload_pdf" THEN {".pdf"} ELSE {".pdf", ".txt"})
       \/ ~hp_req.readable
       \/ IsBlank(hp_req.text)
  ELSE hp_handler \in Handlers /\ IsBlank(hp_req.query)

\* C18: an input error is answered with a 4xx status, never a 5xx or a
\* success, and no backend operation is entered for the request.
C18_InputErrorIs4xx ==
  InputError =>
    /\ hp_calls = 0
    /\ hp_status # NoStatus => (400 <= hp_status /\ hp_status <= 499)

\* C23: a request whose backend calls fail after the retries are used up
\* ends with an error response.
C23_FailureEndsInErrorResponse ==
  (hp_exhausted # "none" /\ hp_pc = "responded") =>
    (400 <= hp_status /\ hp_status <= 599)

\* C24: health_check reports "healthy" exactly when the vector-store probe
\* succeeded and the embedding credential is configured, and "degraded"
\* otherwise; a failing probe gives a degraded report with the vector-store
\* component in error, sent as a normal response.
C24_HealthReflectsComponents ==
  (hp_handler = "health_check" /\ hp_pc = "responded") =>
    /\ hp_status = 200
    /\ hp_health.status \in {"healthy", "degraded"}
    /\ hp_health.status = "healthy" <=>
         (hp_health.probe = "ok" /\ hp_health.key # "")
    /\ hp_health.probe = "fail" =>
         (hp_health.status = "degraded" /\ hp_health.pinecone = "error")
    /\ hp_health.probe = "ok" => hp_health.pinecone = "connected"
    /\ hp_health.google_ai = "error" <=> hp_health.key = ""

\* health_check has answered 200 with a degraded report: the probe failed
\* while the credential is configured
C24_Witness ==
  /\ hp_handler = "health_check" /\ hp_pc = "responded" /\ hp_status = 200
  /\ hp_health.probe = "fail" /\ hp_health.key # ""
  /\ hp_health.status = "degraded" /\ hp_health.pinecone = "error"
  /\ hp_health.google_ai = "connected"

\* the sum of the sizes of the batches sent in one attempt
RECURSIVE BatchSum(_)
BatchSum(batches) ==
  IF batches = <<>> THEN 0
  ELSE (batches[1][2] - batches[1][1]) + BatchSum(Tail(batches))

\* C30: a store_embeddings attempt of n entries in which every write succeeds
\* sends ceil(n / 100) upserts of at most 100 entries each, which hold every
\* entry once and in input order, and returns the sum of the counts of that
\* attempt's batches, with nothing added from earlier failed attempts.
C30_BatchesOfFinalAttempt ==
  \A c \in Callers :
    LET r == vs_caller[c]
    IN (r.op = "ingest" /\ r.pc = "done") =>
         /\ Len(r.batches) * BATCH_SIZE >= r.n
         /\ (Len(r.batches) - 1) * BATCH_SIZE < r.n \/ r.batches = <<>>
         /\ \A b \in 1..Len(r.batches) :
              /\ r.batches[b][1] = (IF b = 1 THEN 0 ELSE r.batches[b - 1][2])
              /\ r.batches[b][1] < r.batches[b][2]
              /\ r.batches[b][2] - r.batches[b][1] <= BATCH_SIZE
              /\ <<c, r.batches[b][1], r.batches[b][2]>> \in vs_stored
         /\ r.batches # <<>> => r.batches[Len(r.batches)][2] = r.n
         /\ r.upserted_count = BatchSum(r.batches)
         /\ r.upserted_count = r.n

\* an ingest of 201 entries has returned from its third attempt, after an
\* attempt that failed with the first batch written: three upserts in the
\* final attempt, the first batch sent more than once, 201 returned
C30_Witness ==
  \E c \in Callers :
    LET r == vs_caller[c]
    IN /\ r.op = "ingest" /\ r.pc = "done" /\ r.n = 2 * BATCH_SIZE + 1
       /\ r.attempt = 3 /\ r.sent[1] >= 2
       /\ Len(r.batches) = 3 /\ r.upserted_count = r.n

(***************************************************************************)
(* Properties of the configuration and of the chunk ids.                   *)
(***************************************************************************)
\* C22: configuration validation rejects every configuration with
\* chunk_overlap >= chunk_size, and the chunker is never run with such a pair.
C22_OverlapBelowSize ==
  /\ cf_valid = "accepted" => cf_settings.CHUNK_OVERLAP < cf_settings.CHUNK_SIZE
  /\ cf_chunker.run => cf_chunker.overlap < cf_chunker.size

\* C21: every chunk id produced by an ingest differs from every chunk id
\* produced before it, the ids of an earlier ingest of the same content
\* included.
C21_ChunkIdsFresh ==
  \A i \in 1..Len(ig_ids) : \A j \in 1..Len(ig_ids) :
    i # j => ig_ids[i] # ig_ids[j]

(***************************************************************************)
(* Bounds on the work of a batch of embeddings.                            *)
(***************************************************************************)
RECURSIVE AttemptSum(_)
AttemptSum(attempts) ==
  IF attempts = <<>> THEN 0 ELSE attempts[1] + AttemptSum(Tail(attempts))

\* C34: in create_embeddings_batch a text causes at most 3 backend attempts
\* inside its group and at most 6 in all, the zero vector stands only for a
\* text that has had all 6, and the attempts of a batch of n texts never sum
\* to more than 6n.
C34_AtMostSixAttemptsPerText ==
  eb_pc # "idle" =>
    /\ \A k \in 1..Len(eb_texts) : eb_attempts[k] <= 6
    /\ eb_pc = "gather" =>
         \A k \in 1..Len(eb_tasks) : eb_attempts[eb_i + k] <= 3
    /\ \A k \in 1..Len(eb_out) :
         eb_out[k] = ZeroVector => eb_attempts[k] = 6
    /\ AttemptSum(eb_attempts) <= 6 * Len(eb_texts)

\* a batch of three texts has ended with every text on its zero vector, after
\* 6 attempts for each and 6n = 18 in all
C34_Witness ==
  /\ eb_pc = "done" /\ Len(eb_texts) = 3
  /\ eb_out = <<ZeroVector, ZeroVector, ZeroVector>>
  /\ AttemptSum(eb_attempts) = 18

(***************************************************************************)
(* The index exists before anything is written to it.                      *)
(***************************************************************************)
\* the upserts sent so far by a caller
SentCount(r) == AttemptSum(r.sent)

\* a caller that is about to upsert, or has upserted, holds a handle that
\* get_index constructed after its existence check, on an index that exists
UpsertsOnExistingIndex ==
  \A c \in Callers :
    LET r == vs_caller[c]
    IN /\ r.pc = "upsert" => (vs_exists /\ r.index \in 1..vs_handles)
       /\ SentCount(r) > 0 => vs_exists
       /\ vs_stored # {} => vs_exists

\* C31: no upsert is issued while the index does not exist: every caller at
\* or past its first upsert holds a handle constructed after a completed
\* existence check, and a missing index comes to exist only by a successful
\* create_index with dimension 768 and the cosine metric, before any upsert
\* has been sent.
C31_NoUpsertBeforeIndexExists ==
  [][ /\ UpsertsOnExistingIndex /\ UpsertsOnExistingIndex'
      /\ (~vs_exists /\ vs_exists') =>
           /\ vs_create'.succeeded = vs_create.succeeded + 1
           /\ vs_create'.dimension = 768 /\ vs_create'.metric = "cosine"
           /\ vs_stored = {}
           /\ \A c \in Callers : SentCount(vs_caller[c]) = 0
    ]_vars

\* the index was missing, one create_index with dimension 768 and the cosine
\* metric made it, and an ingest has since written all its batches
C31_Witness ==
  /\ vs_create.calls = 1 /\ vs_create.succeeded = 1
  /\ vs_create.dimension = INDEX_DIMENSION /\ vs_create.metric = INDEX_METRIC
  /\ \E c \in Callers :
       /\ vs_caller[c].op = "ingest" /\ vs_caller[c].pc = "done"
       /\ vs_caller[c].n = MaxEntries /\ vs_caller[c].attempt = 1
       /\ Cardinality(vs_stored) = BatchCount(MaxEntries)

(***************************************************************************)
(* Consecutive chunks of the sliding loop.                                 *)
(***************************************************************************)
\* C33: on the sliding-window path every chunk after the first holds a
\* character position that the chunk before it does not hold.
C33_NotContainedInPredecessor ==
  \A w \in 2..Len(EmittedWindows) :
    ~(WindowPositions(EmittedWindows[w])
        \subseteq WindowPositions(EmittedWindows[w - 1]))

(***************************************************************************)
(* Properties of the rate limiter.                                         *)
(***************************************************************************)
\* how many of the timestamps lie within the last 60 seconds
RecentCount(timestamps, now) ==
  Cardinality({i \in 1..Len(timestamps) : now - timestamps[i] < RATE_WINDOW})

\* for every ip, neither the requests let through within the last 60 seconds
\* nor the timestamps on record for it exceed the limit, and every request
\* let through within the last 60 seconds is on record
WithinLimit(history, admitted, now, limit) ==
  \A ip \in ClientIps :
    /\ RecentCount(admitted[ip], now) <= limit
    /\ Len(HistoryOf(history, ip)) <= limit
    /\ RecentCount(HistoryOf(history, ip), now) = RecentCount(admitted[ip], now)

\* C32: under every interleaving of request checks, clock advances and turns
\* of the cleanup task, no ip has more than requests_per_minute admitted
\* requests on record within the last 60 seconds, and a rejected request
\* adds nothing to the history: the list of its ip does not grow and holds
\* only timestamps it held before, and the other lists are unchanged.
C32_AdmittedWithinLimit ==
  [][ /\ WithinLimit(rl_history, rl_admitted, rl_now, rl_limit)
      /\ WithinLimit(rl_history', rl_admitted', rl_now', rl_limit')
      /\ (rl_requests' > rl_requests /\ rl_last'.verdict = "rejected") =>
           LET ip == rl_last'.ip
               before == HistoryOf(rl_history, ip)
               after == HistoryOf(rl_history', ip)
           IN /\ rl_admitted' = rl_admitted
              /\ Len(after) <= Len(before)
              /\ after = SubSeq(before, Len(before) - Len(after) + 1, Len(before))
              /\ \A other \in ClientIps \ {ip} :
                   HistoryOf(rl_history', other) = HistoryOf(rl_history, other)
    ]_vars

\* with a limit of 1, an ip was let through at time 0 and again at time 60,
\* when the first request had just left the window, and its third request
\* has been rejected; the cleanup task has run
C32_Witness ==
  \E ip \in ClientIps :
    /\ rl_limit = 1
    /\ rl_admitted[ip] = <<0, RATE_WINDOW>>
    /\ rl_last = [ip |-> ip, path |-> "/api/chat", verdict |-> "rejected"]
    /\ HistoryOf(rl_history, ip) = <<RATE_WINDOW>>
    /\ rl_task.wake > rl_now
====
